---- MODULE Spec2Model ----
(***************************************************************************)
(* A model of the farm-machinery scheduler of app/api/schedule/route.ts:   *)
(* the road network builder, the path finder, the coverage path generator  *)
(* and the discrete-time scheduling loop.                                  *)
(*                                                                         *)
(* Numbers.  The program computes in IEEE doubles.  Here                   *)
(*   - field and node coordinates are integers;                            *)
(*   - capacities, completed fractions and coverage coordinates are exact  *)
(*     rationals [n |-> numerator, d |-> denominator > 0] in lowest terms; *)
(*   - a Euclidean distance sqrt(r) is represented by its radicand r, so   *)
(*     that comparing two distances is exact;                              *)
(*   - times are fixed-point integers in units of 1/TimeScale, a quotient  *)
(*     or a square root being truncated to that resolution.                *)
(***************************************************************************)
EXTENDS Integers, Sequences, FiniteSets, TLC

VARIABLES
  data,         \* the ScheduleRequest being served
  roadNetwork,  \* RoadNode[]: each node's point and its connections (indices)
  machines,     \* MachineState[]
  fieldStates,  \* FieldWorkState[]
  currentTime,  \* the scheduling loop's clock (fixed point)
  ticks,        \* iterations of the scheduling loop completed so far
  pc,           \* position in generateScheduleWithRoadNetwork
  mi,           \* index of the next machine of the current for/forEach loop
  assigned,     \* per machine, its assignments in the current loop iteration
  lastStep,     \* what the latest machine iteration did (observation only)
  result,       \* the ScheduleResult, once returned
  query         \* the latest findShortestPath call of the road specification

vars == <<data, roadNetwork, machines, fieldStates, currentTime, ticks, pc, mi,
          assigned, lastStep, result, query>>

----------------------------------------------------------------------------
(* Bounds of the model. *)

MaxMachines == 2
MaxFields == 2

----------------------------------------------------------------------------
(* Arithmetic. *)

TimeScale == 10 * 10

Abs(a) == IF a < 0 THEN -a ELSE a

MinInt(a, b) == IF a < b THEN a ELSE b

MaxInt(a, b) == IF a > b THEN a ELSE b

RECURSIVE Gcd(_, _)
Gcd(a, b) == IF b = 0 THEN a ELSE Gcd(b, a % b)

Rat(n, d) ==
  LET g == Gcd(Abs(n), Abs(d))
      s == IF d < 0 THEN -1 ELSE 1
  IN  [n |-> (s * n) \div g, d |-> (s * d) \div g]

RInt(i) == [n |-> i, d |-> 1]

RAdd(a, b) == Rat(a.n * b.d + b.n * a.d, a.d * b.d)

RSub(a, b) == Rat(a.n * b.d - b.n * a.d, a.d * b.d)

RMul(a, b) == Rat(a.n * b.n, a.d * b.d)

RDivInt(a, k) == Rat(a.n, a.d * k)

RLt(a, b) == a.n * b.d < b.n * a.d

RLe(a, b) == a.n * b.d <= b.n * a.d

RMin(a, b) == IF RLt(b, a) THEN b ELSE a

RMax(a, b) == IF RLt(a, b) THEN b ELSE a

\* Rounding up in place of Math.floor.
RoundUp(r) == -((-r.n) \div r.d)

\* Math.floor, Math.ceil and Math.round (halves go up) of a rational.
Floor(r) == r.n \div r.d

Ceil(r) == -((-r.n) \div r.d)

\* Truncation towards minus infinity in place of Math.round.
RoundDown(r) == Floor(r)

Round(r) == (2 * r.n + r.d) \div (2 * r.d)

\* floor(sqrt(n)) by bisection of lo..hi, where lo*lo <= n < (hi+1)*(hi+1).
RECURSIVE ISqrtIn(_, _, _)
ISqrtIn(n, lo, hi) ==
  IF lo >= hi THEN lo
  ELSE LET mid == (lo + hi + 1) \div 2
       IN  IF mid * mid <= n THEN ISqrtIn(n, mid, hi) ELSE ISqrtIn(n, lo, mid - 1)

ISqrt(n) == ISqrtIn(n, 0, 46340)

\* Math.sqrt of a radicand, as a fixed-point number.
Sqrt(r) == ISqrt(r * TimeScale * TimeScale)

Range(s) == {s[i] : i \in DOMAIN s}

MinOf(S) == CHOOSE m \in S : \A o \in S : m <= o

MaxOf(S) == CHOOSE m \in S : \A o \in S : m >= o

Pt(px, py) == [x |-> px, y |-> py]

----------------------------------------------------------------------------
(* Geometry utilities. *)

\* snapToGrid of a point with rational coordinates.
snapToGrid(position) == Pt(Round(position.x), Round(position.y))

\* calculateDistance: the radicand of the Euclidean distance.
calculateDistance(point1, point2) ==
  (point2.x - point1.x) * (point2.x - point1.x)
    + (point2.y - point1.y) * (point2.y - point1.y)

\* isPointInsideAnyField for a point given in units of 1/k.
isPointInsideAnyField(point, k, fields) ==
  \E i \in DOMAIN fields :
    /\ point.x > fields[i].x * k
    /\ point.x < (fields[i].x + fields[i].width) * k
    /\ point.y > fields[i].y * k
    /\ point.y < (fields[i].y + fields[i].height) * k

steps == 10

\* The interpolated point from + (to - from) * i / steps, in units of 1/steps.
checkPoint(from, to, i) ==
  Pt(from.x * steps + (to.x - from.x) * i, from.y * steps + (to.y - from.y) * i)

\* The test of the two end points alone, with no interpolated point.
endpointsCrossFields(from, to, fields) ==
  isPointInsideAnyField(from, 1, fields) \/ isPointInsideAnyField(to, 1, fields)

doesPathCrossFields(from, to, fields) ==
  \E i \in 1..(steps - 1) : isPointInsideAnyField(checkPoint(from, to, i), steps, fields)

----------------------------------------------------------------------------
(* Road network builder. *)

roadSpacing == 10

roadMargin == 20

FieldCorners(field) ==
  << Pt(field.x, field.y),
     Pt(field.x + field.width, field.y),
     Pt(field.x, field.y + field.height),
     Pt(field.x + field.width, field.y + field.height) >>

\* The candidate points of the two nested for loops, x outermost.
GridPoints(fields, baseStation) ==
  LET minX == MinOf({fields[i].x : i \in DOMAIN fields} \cup {baseStation.x}) - roadMargin
      maxX == MaxOf({fields[i].x + fields[i].width : i \in DOMAIN fields}
                      \cup {baseStation.x}) + roadMargin
      minY == MinOf({fields[i].y : i \in DOMAIN fields} \cup {baseStation.y}) - roadMargin
      maxY == MaxOf({fields[i].y + fields[i].height : i \in DOMAIN fields}
                      \cup {baseStation.y}) + roadMargin
      nx == (maxX - minX) \div roadSpacing + 1
      ny == (maxY - minY) \div roadSpacing + 1
  IN  [k \in 1..(nx * ny) |->
         Pt(minX + roadSpacing * ((k - 1) \div ny), minY + roadSpacing * ((k - 1) % ny))]

\* nodeMap.has(key) guards the push of a base or corner node.
AddNode(nodes, p) ==
  IF \E i \in DOMAIN nodes : nodes[i] = p THEN nodes ELSE Append(nodes, p)

RECURSIVE AddNodes(_, _)
AddNodes(nodes, ps) ==
  IF ps = <<>> THEN nodes ELSE AddNodes(AddNode(nodes, Head(ps)), Tail(ps))

RECURSIVE AddCorners(_, _, _)
AddCorners(nodes, fields, i) ==
  IF i > Len(fields) THEN nodes
  ELSE AddCorners(AddNodes(nodes, FieldCorners(fields[i])), fields, i + 1)

GridNodes(fields, baseStation) ==
  SelectSeq(GridPoints(fields, baseStation),
            LAMBDA p : ~isPointInsideAnyField(p, 1, fields))

\* The base station pushed as a node wherever it is.
BaseNodeAnywhere(nodes, fields, baseStation) == AddNode(nodes, baseStation)

BaseNode(nodes, fields, baseStation) ==
  IF ~isPointInsideAnyField(baseStation, 1, fields) THEN AddNode(nodes, baseStation)
  ELSE nodes

NodePoints(fields, baseStation) ==
  AddCorners(BaseNode(GridNodes(fields, baseStation), fields, baseStation), fields, 1)

\* distance <= roadSpacing * 1.5, on the radicands.
IsAdjacent(a, b) == 4 * calculateDistance(a, b) <= 9 * roadSpacing * roadSpacing

ShouldConnect(a, b, fields) ==
  /\ a # b
  /\ IsAdjacent(a, b)
  /\ ~doesPathCrossFields(a, b, fields)

\* The nodes of the network, in the order the builder pushes them, each with
\* the connections the nested forEach gives it: the indices of the nodes it
\* is connected to, in the order of the network.
generateFieldRoadNetwork(fields, baseStation) ==
  LET nodes == NodePoints(fields, baseStation)
  IN  [i \in DOMAIN nodes |->
         [x |-> nodes[i].x, y |-> nodes[i].y,
          connections |-> SelectSeq([j \in DOMAIN nodes |-> j],
                                    LAMBDA j : ShouldConnect(nodes[i], nodes[j], fields))]]

\* node.connections
Connections(roadNet, i) == roadNet[i].connections

----------------------------------------------------------------------------
(* Shortest path finder. *)

POSITIVE_INFINITY == -1

\* `v || Number.POSITIVE_INFINITY`: a distance of 0 is falsy.
OrInfinity(v) == IF v = 0 THEN POSITIVE_INFINITY ELSE v

Less(a, b) == a # POSITIVE_INFINITY /\ (b = POSITIVE_INFINITY \/ a < b)

Plus(a, b) == IF a = POSITIVE_INFINITY THEN POSITIVE_INFINITY ELSE a + b

\* roadNetwork.reduce without an initial value: the accumulator is replaced
\* only by a strictly nearer node, so the result is the first node, in the
\* order of the network, at the least distance.
\* The first node of the network, whatever the point.
FirstNode(p, roadNet) == 1

NearestNode(p, roadNet) ==
  LET least == MinOf({calculateDistance(p, roadNet[i]) : i \in DOMAIN roadNet})
  IN  MinOf({i \in DOMAIN roadNet : calculateDistance(p, roadNet[i]) = least})

\* The scan of the unvisited set for the node of least distance: the first
\* one, in the set's order, whose distance is below every earlier one's and
\* below infinity; 0 (null) when there is none.
PickCurrent(distances, unvisited) ==
  LET finite == {k \in DOMAIN unvisited :
                   OrInfinity(distances[unvisited[k]]) # POSITIVE_INFINITY}
  IN  IF finite = {} THEN 0
      ELSE LET least == MinOf({distances[unvisited[k]] : k \in finite})
           IN  unvisited[MinOf({k \in finite : distances[unvisited[k]] = least})]

\* current.connections.forEach: the update of the neighbours' distances.
RECURSIVE Relax(_, _, _, _, _)
Relax(roadNet, connections, st, current, k) ==
  IF k > Len(connections) THEN st
  ELSE LET neighbor == connections[k]
           alt == Plus(OrInfinity(st.distances[current]),
                       Sqrt(calculateDistance(roadNet[current], roadNet[neighbor])))
       IN  IF /\ \E u \in DOMAIN st.unvisited : st.unvisited[u] = neighbor
              /\ Less(alt, OrInfinity(st.distances[neighbor]))
           THEN Relax(roadNet, connections,
                      [st EXCEPT !.distances[neighbor] = alt, !.previous[neighbor] = current],
                      current, k + 1)
           ELSE Relax(roadNet, connections, st, current, k + 1)

\* The while loop of the search; st is [distances, previous, unvisited].
RECURSIVE Dijkstra(_, _, _)
Dijkstra(roadNet, endNode, st) ==
  IF st.unvisited = <<>> THEN st
  ELSE LET current == PickCurrent(st.distances, st.unvisited)
       IN  IF current = 0 \/ current = endNode THEN st
           ELSE Dijkstra(roadNet, endNode,
                  Relax(roadNet, Connections(roadNet, current),
                        [st EXCEPT !.unvisited = SelectSeq(@, LAMBDA n : n # current)],
                        current, 1))

\* The walk along the predecessor links, each point put in front.
RECURSIVE Reconstruct(_, _, _, _)
Reconstruct(roadNet, previous, current, path) ==
  IF current = 0 THEN path
  ELSE Reconstruct(roadNet, previous, previous[current],
                   <<Pt(roadNet[current].x, roadNet[current].y)>> \o path)

\* The search proper: the nearest nodes, the loop, and the reconstructed path.
\* A search that takes the last node of the network for the end node.
SearchToLastNode(start, end, roadNet) ==
  LET startNode == NearestNode(start, roadNet)
      endNode == Len(roadNet)
      init == [distances |-> [i \in DOMAIN roadNet |-> IF i = startNode THEN 0
                                                        ELSE POSITIVE_INFINITY],
               previous |-> [i \in DOMAIN roadNet |-> 0],
               unvisited |-> [i \in DOMAIN roadNet |-> i]]
      final == Dijkstra(roadNet, endNode, init)
  IN  [startNode |-> startNode, endNode |-> endNode,
       path |-> Reconstruct(roadNet, final.previous, endNode, <<>>)]

SearchPath(start, end, roadNet) ==
  LET startNode == NearestNode(start, roadNet)
      endNode == NearestNode(end, roadNet)
      init == [distances |-> [i \in DOMAIN roadNet |-> IF i = startNode THEN 0
                                                        ELSE POSITIVE_INFINITY],
               previous |-> [i \in DOMAIN roadNet |-> 0],
               unvisited |-> [i \in DOMAIN roadNet |-> i]]
      final == Dijkstra(roadNet, endNode, init)
  IN  [startNode |-> startNode, endNode |-> endNode,
       path |-> Reconstruct(roadNet, final.previous, endNode, <<>>)]

\* The test that the reconstructed path is valid; when it fails the code
\* warns "No path found" and falls back to the straight line.
PathFound(search, roadNet) ==
  /\ Len(search.path) > 0
  /\ search.path[1].x = roadNet[search.startNode].x
  /\ search.path[1].y = roadNet[search.startNode].y

\* The reconstructed path when it is valid, else the straight line.
PathOrFallback(search, roadNet) ==
  IF PathFound(search, roadNet)
  THEN search.path
  ELSE << Pt(roadNet[search.startNode].x, roadNet[search.startNode].y),
          Pt(roadNet[search.endNode].x, roadNet[search.endNode].y) >>

findShortestPath(start, end, roadNet) ==
  PathOrFallback(SearchPath(start, end, roadNet), roadNet)

----------------------------------------------------------------------------
(* Field coverage path generator. *)

rowSpacing == 5

\* The zig-zag rows startRow .. endRow - 1, two points a row, with rational
\* coordinates.
generateContinuousFieldWorkPath(field, startPercentage, workPercentage) ==
  LET totalRows == MaxInt(1, field.height \div rowSpacing)
      startRow == Floor(RMul(startPercentage, RInt(totalRows)))
      endRow == MinInt(totalRows,
                       Ceil(RMul(RAdd(startPercentage, workPercentage), RInt(totalRows))))
      offset == RMul(RSub(RMul(startPercentage, RInt(totalRows)), RInt(startRow)),
                     RInt(field.width))
      RowY(i) == RAdd(RInt(field.y), Rat(i * field.height, totalRows))
      Resumed(i) == i = startRow /\ RLt(RInt(0), startPercentage)
      FirstX(i) == IF i % 2 = 0
                   THEN IF Resumed(i) THEN RAdd(RInt(field.x), offset) ELSE RInt(field.x)
                   ELSE IF Resumed(i) THEN RSub(RInt(field.x + field.width), offset)
                        ELSE RInt(field.x + field.width)
      SecondX(i) == IF i % 2 = 0 THEN RInt(field.x + field.width) ELSE RInt(field.x)
  IN  [k \in 1..(2 * MaxInt(0, endRow - startRow)) |->
         LET i == startRow + (k - 1) \div 2
         IN  Pt(IF k % 2 = 1 THEN FirstX(i) ELSE SecondX(i), RowY(i))]

----------------------------------------------------------------------------
(* Scheduling simulator: the helpers of one machine iteration. *)

maxTime == 3600 * 8 * TimeScale

tickLength == 60

travelSpeed == 5

workTimePerField == 180

\* The thresholds 0.1 (resupply), 0.05 (work) and 0.99 (completion).
supplyThreshold == Rat(1, 10)

workThreshold == Rat(1, 20)

completionThreshold == Rat(99, 100)

RPt(p) == Pt(RInt(p.x), RInt(p.y))

PathPoint(p, t, a) == [x |-> p.x, y |-> p.y, timestamp |-> t, action |-> a]

\* calculateDistance(a, b) / 5 as a fixed-point time.
TravelTime(a, b) == Sqrt(calculateDistance(a, b)) \div travelSpeed

\* selectOptimalFieldEntryPoint; lastWorkPosition is <<>> (null) or <<p>>.
RECURSIVE ClosestCorner(_, _, _, _)
ClosestCorner(corners, baseStation, i, closest) ==
  IF i > Len(corners) THEN closest
  ELSE ClosestCorner(corners, baseStation, i + 1,
         IF calculateDistance(baseStation, corners[i])
              < calculateDistance(baseStation, closest)
         THEN corners[i] ELSE closest)

selectOptimalFieldEntryPoint(field, baseStation, lastWorkPosition) ==
  IF lastWorkPosition # <<>> THEN lastWorkPosition[1]
  ELSE ClosestCorner(FieldCorners(field), baseStation, 1, FieldCorners(field)[1])

\* path.forEach((point, index) => { if (index > 0) ... }) of a travel leg: the
\* machine moves point by point, each point pushed as road_travel.
RECURSIVE TravelLeg(_, _, _, _, _, _)
TravelLeg(path, i, position, time, segments, snap) ==
  IF i > Len(path) THEN [position |-> position, time |-> time, segments |-> segments]
  ELSE LET t == time + TravelTime(position, path[i])
           shown == IF snap THEN snapToGrid(RPt(path[i])) ELSE path[i]
       IN  TravelLeg(path, i + 1, path[i], t,
                     Append(segments, PathPoint(shown, t, "road_travel")), snap)

\* An emergency return logged as one point tagged return at gridPoint.
EmergencyLoggedAsReturn(path, i, gridPoint, machineTime, returnTime, segments) ==
  [returnTime |-> returnTime,
   segments |-> Append(segments, PathPoint(gridPoint, machineTime + returnTime, "return"))]

\* The emergency return of a machine that ran out of capacity at gridPoint:
\* every segment time is measured from gridPoint.
RECURSIVE EmergencyLeg(_, _, _, _, _, _)
EmergencyLeg(path, i, gridPoint, machineTime, returnTime, segments) ==
  IF i > Len(path) THEN [returnTime |-> returnTime, segments |-> segments]
  ELSE LET t == returnTime + TravelTime(gridPoint, path[i])
       IN  EmergencyLeg(path, i + 1, gridPoint, machineTime, t,
                        Append(segments, PathPoint(path[i], machineTime + t,
                                                   "emergency_road_travel")))

\* The loop over the coverage points; acc is the loop's local state.  The
\* time per point and the work time are exact here, and truncated where a
\* timestamp is made of them.
RECURSIVE WorkLoop(_, _, _, _, _, _, _, _)
WorkLoop(fieldWorkPath, i, machine, baseStation, roadNet, capacityPerPoint, timePerPoint, acc) ==
  IF i > Len(fieldWorkPath) THEN [acc EXCEPT !.workTime = Floor(@)]
  ELSE
    LET gridPoint == snapToGrid(fieldWorkPath[i])
        nextCapacityUsed == RAdd(acc.capacityUsed, capacityPerPoint)
        nextWorkTime == RAdd(acc.workTime, timePerPoint)
    IN  IF RLt(RSub(machine.currentCapacity, nextCapacityUsed), workThreshold)
        THEN LET full == PathPoint(gridPoint, machine.currentTime + Floor(nextWorkTime),
                                   "capacity_full")
                 returnPath == findShortestPath(gridPoint, baseStation, roadNet)
                 back == EmergencyLeg(returnPath, 2, gridPoint, machine.currentTime,
                                      Floor(nextWorkTime),
                                      Append(acc.pathSegments, full))
             IN  [pathSegments |-> back.segments,
                  endPosition |-> gridPoint,
                  capacityUsed |-> nextCapacityUsed,
                  workTime |-> back.returnTime,
                  workPath |-> Append(acc.workPath, gridPoint)]
        ELSE WorkLoop(fieldWorkPath, i + 1, machine, baseStation, roadNet,
                      capacityPerPoint, timePerPoint,
                      [pathSegments |-> Append(acc.pathSegments,
                                          PathPoint(gridPoint,
                                                    machine.currentTime
                                                      + Floor(nextWorkTime),
                                                    "working")),
                       endPosition |-> gridPoint,
                       capacityUsed |-> nextCapacityUsed,
                       workTime |-> nextWorkTime,
                       workPath |-> Append(acc.workPath, gridPoint)])

\* executeFieldWorkWithRoadNetwork.  machineTime is machine.currentTime as the
\* travel to the field leaves it (the function advances it in place).
executeFieldWorkWithRoadNetwork(machine, fieldState, machineCapacity, roadNet, baseStation) ==
  LET field == fieldState.field
      remainingWork == RMax(RInt(0), RSub(RInt(1), fieldState.completedPercentage))
      availableCapacity == RMin(machine.currentCapacity, remainingWork)
  IN  IF RLe(availableCapacity, workThreshold)
      THEN [pathSegments |-> <<>>, endPosition |-> machine.position,
            capacityUsed |-> RInt(0), workTime |-> 0, workPath |-> <<>>,
            machineTime |-> machine.currentTime]
      ELSE
        LET workStartPoint ==
              selectOptimalFieldEntryPoint(field, baseStation, fieldState.lastWorkPosition)
            travelPath == findShortestPath(machine.position, workStartPoint, roadNet)
            travel == TravelLeg(travelPath, 2, machine.position, machine.currentTime,
                                <<>>, TRUE)
            gridStartPoint == snapToGrid(RPt(workStartPoint))
            arrived == Append(travel.segments,
                              PathPoint(gridStartPoint, travel.time, "field_start"))
            fieldWorkPath ==
              generateContinuousFieldWorkPath(field, fieldState.completedPercentage,
                                              availableCapacity)
        IN  IF Len(fieldWorkPath) = 0
            THEN [pathSegments |-> arrived, endPosition |-> gridStartPoint,
                  capacityUsed |-> RInt(0), workTime |-> 0, workPath |-> <<>>,
                  machineTime |-> travel.time]
            ELSE
              LET capacityPerPoint == RDivInt(availableCapacity, Len(fieldWorkPath))
                  timePerPoint ==
                    RDivInt(RMul(availableCapacity, RInt(workTimePerField * TimeScale)),
                            Len(fieldWorkPath))
                  done == WorkLoop(fieldWorkPath, 1,
                                   [machine EXCEPT !.currentTime = travel.time],
                                   baseStation, roadNet, capacityPerPoint, timePerPoint,
                                   [pathSegments |-> arrived,
                                    endPosition |-> gridStartPoint,
                                    capacityUsed |-> RInt(0),
                                    workTime |-> RInt(0),
                                    workPath |-> <<>>])
              IN  [pathSegments |-> done.pathSegments,
                   endPosition |-> done.endPosition,
                   capacityUsed |-> done.capacityUsed,
                   workTime |-> done.workTime,
                   workPath |-> done.workPath,
                   machineTime |-> travel.time]

----------------------------------------------------------------------------
(* Efficiency scorer and the result. *)

\* A rational of denominator 0 stands for a value no number has.
NaN == [n |-> 0, d |-> 0]

NegativeInfinity == [n |-> -1, d |-> 0]

RECURSIVE SumTo(_, _)
SumTo(f, k) == IF k = 0 THEN 0 ELSE f[k] + SumTo(f, k - 1)

\* The score with the balance taken as 1 - timeVariance / (avgTime^2 + 1),
\* without Math.max(0.5, ...).
unflooredEfficiency(ms, fss) ==
  LET n == Len(ms)
      T == [i \in DOMAIN ms |-> ms[i].currentTime \div TimeScale]
      S == SumTo(T, n)
      D == SumTo([i \in DOMAIN ms |-> (n * T[i] - S) * (n * T[i] - S)], n)
  IN  IF n = 0 THEN NaN
      ELSE RMul(Rat(Cardinality({i \in DOMAIN fss : fss[i].isCompleted}), Len(fss)),
                RSub(RInt(1), Rat(D, n * (S * S + n * n))))

\* calculateEfficiency, on the machines' times in whole units.  With n
\* machines of times T, S their sum and D the sum of the (n T - S)^2:
\* timeVariance / (avgTime^2 + 1) = D / (n (S^2 + n^2)).  No machine makes
\* avgTime 0/0; no completed field makes the product 0 times a finite score.
calculateEfficiency(ms, fss) ==
  LET completedFields == Cardinality({i \in DOMAIN fss : fss[i].isCompleted})
      totalFields == Len(fss)
      completionRate == Rat(completedFields, totalFields)
      n == Len(ms)
      T == [i \in DOMAIN ms |-> ms[i].currentTime \div TimeScale]
      S == SumTo(T, n)
      D == SumTo([i \in DOMAIN ms |-> (n * T[i] - S) * (n * T[i] - S)], n)
      balanceScore == RMax(Rat(1, 2), RSub(RInt(1), Rat(D, n * (S * S + n * n))))
  IN  IF n = 0 THEN NaN
      ELSE IF completedFields = 0 THEN RInt(0)
      ELSE RMul(completionRate, balanceScore)

colors == << "#3b82f6", "#ef4444", "#f59e0b", "#8b5cf6", "#ec4899", "#06b6d4",
             "#f97316", "#6366f1" >>

MachineRoute(machine) ==
  [machineId |-> machine.id,
   path |-> machine.path,
   color |-> colors[((machine.id - 1) % Len(colors)) + 1],
   supplyEvents |-> machine.supplyEvents]

\* Math.max(...machines.map((m) => m.currentTime)) / 60, an exact quotient of
\* the fixed-point time.
TotalTime(ms) ==
  IF Len(ms) = 0 THEN NegativeInfinity
  ELSE Rat(MaxOf({ms[i].currentTime : i \in DOMAIN ms}), tickLength * TimeScale)

EmptyResult(baseStation) ==
  [machines |-> <<>>, totalTime |-> RInt(0), efficiency |-> RInt(0),
   totalSupplyEvents |-> 0, baseStation |-> baseStation, roadNetwork |-> <<>>]

ScheduleResult(ms, fss, baseStation, roadNet) ==
  [machines |-> [i \in DOMAIN ms |-> MachineRoute(ms[i])],
   totalTime |-> TotalTime(ms),
   efficiency |-> calculateEfficiency(ms, fss),
   totalSupplyEvents |-> SumTo([i \in DOMAIN ms |-> Len(ms[i].supplyEvents)], Len(ms)),
   baseStation |-> baseStation,
   roadNetwork |-> [i \in DOMAIN roadNet |-> Pt(roadNet[i].x, roadNet[i].y)]]

----------------------------------------------------------------------------
(* Scheduling simulator: generateScheduleWithRoadNetwork, step by step. *)

gridBaseStation == snapToGrid(data.baseStation)

InitialMachine(i, baseStation, machineCapacity) ==
  [id |-> i,
   currentCapacity |-> machineCapacity,
   position |-> baseStation,
   currentTime |-> 0,
   path |-> <<PathPoint(baseStation, 0, "start")>>,
   supplyEvents |-> <<>>,
   isIdle |-> TRUE]

InitialFieldState(field) ==
  [field |-> field,
   completedPercentage |-> RInt(0),
   isCompleted |-> FALSE,
   lastWorkPosition |-> <<>>,
   workPath |-> <<>>]

SomeIncomplete(fss) == \E i \in DOMAIN fss : ~fss[i].isCompleted

\* The first field of the list, completed or not.
FirstFieldAlways(fss) == IF Len(fss) = 0 THEN 0 ELSE 1

\* The last field of the list that is not completed; 0 when none.
LastIncompleteField(fss) ==
  IF SomeIncomplete(fss)
  THEN CHOOSE i \in DOMAIN fss :
         ~fss[i].isCompleted /\ \A j \in (i + 1)..Len(fss) : fss[j].isCompleted
  ELSE 0

\* fieldStates.find((fs) => !fs.isCompleted), as an index; 0 when none.
AvailableField(fss) ==
  IF SomeIncomplete(fss)
  THEN CHOOSE i \in DOMAIN fss :
         ~fss[i].isCompleted /\ \A j \in 1..(i - 1) : fss[j].isCompleted
  ELSE 0

\* The while condition without the time ceiling.
LoopWithoutCeiling(time, fss) == SomeIncomplete(fss)

\* The while condition of the scheduling loop.
LoopContinues(time, fss) == time < maxTime /\ SomeIncomplete(fss)

\* A resupply that logs its event at the time the supply ends.
ResupplyLoggedAtEnd(machine, baseStation, roadNet, machineCapacity, supplyDuration) ==
  LET returnPath == findShortestPath(machine.position, baseStation, roadNet)
      leg == TravelLeg(returnPath, 2, machine.position, machine.currentTime, <<>>, FALSE)
      duration == supplyDuration * TimeScale
  IN  [machine EXCEPT
         !.path = (@ \o leg.segments)
                    \o << PathPoint(baseStation, leg.time, "supply"),
                          PathPoint(baseStation, leg.time + duration, "supply_complete") >>,
         !.supplyEvents = Append(@, [time |-> leg.time + duration, duration |-> duration]),
         !.currentTime = leg.time + duration,
         !.currentCapacity = machineCapacity,
         !.position = baseStation]

\* The resupply of a machine whose capacity is below the threshold.
Resupply(machine, baseStation, roadNet, machineCapacity, supplyDuration) ==
  LET returnPath == findShortestPath(machine.position, baseStation, roadNet)
      leg == TravelLeg(returnPath, 2, machine.position, machine.currentTime, <<>>, FALSE)
      duration == supplyDuration * TimeScale
  IN  [machine EXCEPT
         !.path = (@ \o leg.segments)
                    \o << PathPoint(baseStation, leg.time, "supply"),
                          PathPoint(baseStation, leg.time + duration, "supply_complete") >>,
         !.supplyEvents = Append(@, [time |-> leg.time, duration |-> duration]),
         !.currentTime = leg.time + duration,
         !.currentCapacity = machineCapacity,
         !.position = baseStation]

NeedsSupply(machine) == RLt(machine.currentCapacity, supplyThreshold)

AfterSupplyCheck(machine, baseStation, roadNet, machineCapacity, supplyDuration) ==
  IF NeedsSupply(machine)
  THEN Resupply(machine, baseStation, roadNet, machineCapacity, supplyDuration)
  ELSE machine

\* The machine and the field after the caller applied a work result.
MachineAfterWork(machine, work) ==
  [machine EXCEPT
     !.currentCapacity = RSub(@, work.capacityUsed),
     !.currentTime = work.machineTime + work.workTime,
     !.position = work.endPosition,
     !.path = @ \o work.pathSegments]

\* A field update that leaves lastWorkPosition as it was.
FieldKeepsEntryPoint(fieldState, work) ==
  LET completed == RAdd(fieldState.completedPercentage, work.capacityUsed)
  IN  [fieldState EXCEPT
         !.completedPercentage = completed,
         !.workPath = @ \o work.workPath,
         !.isCompleted = @ \/ RLe(completionThreshold, completed)]

FieldAfterWork(fieldState, work) ==
  LET completed == RAdd(fieldState.completedPercentage, work.capacityUsed)
  IN  [fieldState EXCEPT
         !.completedPercentage = completed,
         !.lastWorkPosition = <<work.endPosition>>,
         !.workPath = @ \o work.workPath,
         !.isCompleted = @ \/ RLe(completionThreshold, completed)]

\* A return that is logged for every machine, at the base or not.
ReturnAlways(machine, baseStation, roadNet) ==
  LET returnPath == findShortestPath(machine.position, baseStation, roadNet)
      leg == TravelLeg(returnPath, 2, machine.position, machine.currentTime, <<>>, FALSE)
  IN  [machine EXCEPT
         !.path = Append(@ \o leg.segments, PathPoint(baseStation, leg.time, "return")),
         !.currentTime = leg.time,
         !.position = leg.position]

\* The return of a machine to the base after the loop.
ReturnToBase(machine, baseStation, roadNet) ==
  IF machine.position.x # baseStation.x \/ machine.position.y # baseStation.y
  THEN LET returnPath == findShortestPath(machine.position, baseStation, roadNet)
           leg == TravelLeg(returnPath, 2, machine.position, machine.currentTime,
                            <<>>, FALSE)
       IN  [machine EXCEPT
              !.path = Append(@ \o leg.segments,
                              PathPoint(baseStation, leg.time, "return")),
              !.currentTime = leg.time,
              !.position = leg.position]
  ELSE machine

Idle == [kind |-> "none", machine |-> 0, field |-> 0, supplied |-> FALSE,
         capacity |-> RInt(0), capacityUsed |-> RInt(0)]

Start ==
  /\ pc = "start"
  /\ IF Len(data.fields) = 0
     THEN /\ result' = <<EmptyResult(gridBaseStation)>>
          /\ pc' = "done"
          /\ UNCHANGED <<roadNetwork, machines, fieldStates, assigned>>
     ELSE /\ roadNetwork' = generateFieldRoadNetwork(data.fields, gridBaseStation)
          /\ machines' = [i \in 1..data.machineCount |->
                            InitialMachine(i, gridBaseStation, data.machineCapacity)]
          /\ fieldStates' = [i \in DOMAIN data.fields |-> InitialFieldState(data.fields[i])]
          /\ assigned' = [i \in 1..data.machineCount |-> 0]
          /\ pc' = "for"
          /\ UNCHANGED result
  /\ mi' = 1
  /\ currentTime' = 0
  /\ UNCHANGED <<data, ticks, lastStep, query>>

\* if (machine.currentTime > currentTime) continue
SkipMachine ==
  /\ pc = "for"
  /\ mi <= Len(machines)
  /\ machines[mi].currentTime > currentTime
  /\ mi' = mi + 1
  /\ lastStep' = [Idle EXCEPT !.kind = "skip", !.machine = mi]
  /\ UNCHANGED <<data, roadNetwork, machines, fieldStates, currentTime, ticks, pc,
                 assigned, result, query>>

\* if (!availableField) break
BreakFor ==
  /\ pc = "for"
  /\ mi <= Len(machines)
  /\ machines[mi].currentTime <= currentTime
  /\ AvailableField(fieldStates) = 0
  /\ mi' = Len(machines) + 1
  /\ lastStep' = [Idle EXCEPT !.kind = "break", !.machine = mi]
  /\ UNCHANGED <<data, roadNetwork, machines, fieldStates, currentTime, ticks, pc,
                 assigned, result, query>>

\* One assignment: the resupply if it is due, then the field work.
Assign ==
  /\ pc = "for"
  /\ mi <= Len(machines)
  /\ machines[mi].currentTime <= currentTime
  /\ AvailableField(fieldStates) # 0
  /\ LET f == AvailableField(fieldStates)
         supplied == AfterSupplyCheck(machines[mi], gridBaseStation, roadNetwork,
                                      data.machineCapacity, data.supplyDuration)
         work == executeFieldWorkWithRoadNetwork(supplied, fieldStates[f],
                                                 data.machineCapacity, roadNetwork,
                                                 gridBaseStation)
     IN  /\ machines' = [machines EXCEPT ![mi] = MachineAfterWork(supplied, work)]
         /\ fieldStates' = [fieldStates EXCEPT ![f] = FieldAfterWork(@, work)]
         /\ lastStep' = [kind |-> "assign", machine |-> mi, field |-> f,
                         supplied |-> NeedsSupply(machines[mi]),
                         capacity |-> supplied.currentCapacity,
                         capacityUsed |-> work.capacityUsed]
  /\ assigned' = [assigned EXCEPT ![mi] = @ + 1]
  /\ mi' = mi + 1
  /\ UNCHANGED <<data, roadNetwork, currentTime, ticks, pc, result, query>>

\* The end of the for loop: currentTime += 60, then the while condition.
EndTick ==
  /\ pc = "for"
  /\ mi > Len(machines)
  /\ currentTime' = currentTime + tickLength * TimeScale
  /\ ticks' = ticks + 1
  /\ pc' = IF LoopContinues(currentTime', fieldStates) THEN "for" ELSE "return"
  /\ mi' = 1
  /\ assigned' = [i \in DOMAIN assigned |-> 0]
  /\ lastStep' = [Idle EXCEPT !.kind = "tick"]
  /\ UNCHANGED <<data, roadNetwork, machines, fieldStates, result, query>>

\* machines.forEach: the return to the base, one machine a step.
ReturnMachine ==
  /\ pc = "return"
  /\ mi <= Len(machines)
  /\ machines' = [machines EXCEPT ![mi] = ReturnToBase(@, gridBaseStation, roadNetwork)]
  /\ mi' = mi + 1
  /\ lastStep' = [Idle EXCEPT !.kind = "return", !.machine = mi]
  /\ UNCHANGED <<data, roadNetwork, fieldStates, currentTime, ticks, pc, assigned,
                 result, query>>

Finish ==
  /\ pc = "return"
  /\ mi > Len(machines)
  /\ result' = <<ScheduleResult(machines, fieldStates, gridBaseStation, roadNetwork)>>
  /\ pc' = "done"
  /\ lastStep' = [Idle EXCEPT !.kind = "finish"]
  /\ UNCHANGED <<data, roadNetwork, machines, fieldStates, currentTime, ticks, mi,
                 assigned, query>>

----------------------------------------------------------------------------
(* The requests served. *)

Field(id, x, y, width, height) ==
  [id |-> id, x |-> x, y |-> y, width |-> width, height |-> height]

\* Layouts as the page's grid generator lays them (spacing 20): the default
\* 100 x 80 field, and a grid of small fields in two columns.
DefaultLayout == << Field(1, 0, 0, 100, 80) >>

SmallLayout == << Field(1, 0, 0, 20, 20), Field(2, 40, 0, 20, 20),
                  Field(3, 0, 40, 20, 20), Field(4, 40, 40, 20, 20) >>

Prefix(layout, k) == SubSeq(layout, 1, MinInt(k, Len(layout)))

FieldLists == {Prefix(l, k) : l \in {DefaultLayout, SmallLayout}, k \in 0..MaxFields}

\* Base stations as the page sends them: the centre of the default field
\* (inside it), and a clicked position off the integer grid.
BaseStations == { Pt(RInt(50), RInt(40)), Pt(Rat(-21, 2), RInt(-10)) }

\* Requests of the usual kind: a capacity of a whole or of half a field.
TypicalRequests ==
  [machineCount : 0..MaxMachines,
   fields : FieldLists,
   baseStation : BaseStations,
   machineCapacity : { RInt(1), Rat(1, 2) },
   supplyDuration : { 0, 30 }]

\* Requests whose capacity is too small to work any field: 0.04 is below the
\* work threshold, so every assignment resupplies and works nothing.
StarvedRequests ==
  [machineCount : 0..MaxMachines,
   fields : FieldLists,
   baseStation : BaseStations,
   machineCapacity : { Rat(1, 25) },
   supplyDuration : { 600 }]

Requests == TypicalRequests \cup StarvedRequests

Init ==
  /\ data \in Requests
  /\ roadNetwork = <<>>
  /\ machines = <<>>
  /\ fieldStates = <<>>
  /\ currentTime = 0
  /\ ticks = 0
  /\ pc = "start"
  /\ mi = 1
  /\ assigned = <<>>
  /\ lastStep = Idle
  /\ result = <<>>
  /\ query = <<>>

Next ==
  \/ Start
  \/ SkipMachine
  \/ BreakFor
  \/ Assign
  \/ EndTick
  \/ ReturnMachine
  \/ Finish

Spec == Init /\ [][Next]_vars

----------------------------------------------------------------------------
(* The road network and the path finder on their own: the network of a
   request is built, then paths are asked between positions of the kind the
   scheduler passes (field corners, the base station, a point in a field). *)

\* Custom layouts as parseCustomLayout accepts them: two fields that overlap,
\* and fields whose corners are off the road grid.
OverlapLayout == << Field(1, 0, 0, 20, 20), Field(2, 10, 10, 20, 20),
                    Field(3, 20, 20, 20, 20) >>

OffGridLayout == << Field(1, 4, 5, 20, 20), Field(2, 44, 5, 20, 20),
                    Field(3, 4, 45, 20, 20) >>

RoadFieldLists ==
  {Prefix(l, k) : l \in {SmallLayout, OverlapLayout, OffGridLayout}, k \in 1..MaxFields}

RoadBaseStations == { Pt(RInt(0), RInt(0)), Pt(Rat(-21, 2), RInt(-10)) }

RoadRequests ==
  [machineCount : {1},
   fields : RoadFieldLists,
   baseStation : RoadBaseStations,
   machineCapacity : { RInt(1) },
   supplyDuration : { 30 }]

\* The centre of a field, a position of a machine at work.
FieldCentre(field) ==
  Pt(field.x + field.width \div 2, field.y + field.height \div 2)

QueryPoints ==
  {gridBaseStation}
    \cup UNION {Range(FieldCorners(data.fields[i])) : i \in DOMAIN data.fields}
    \cup {FieldCentre(data.fields[1])}

InitRoad ==
  /\ data \in RoadRequests
  /\ roadNetwork = <<>>
  /\ machines = <<>>
  /\ fieldStates = <<>>
  /\ currentTime = 0
  /\ ticks = 0
  /\ pc = "network"
  /\ mi = 1
  /\ assigned = <<>>
  /\ lastStep = Idle
  /\ result = <<>>
  /\ query = <<>>

BuildNetwork ==
  /\ pc = "network"
  /\ roadNetwork' = generateFieldRoadNetwork(data.fields, gridBaseStation)
  /\ pc' = "paths"
  /\ UNCHANGED <<data, machines, fieldStates, currentTime, ticks, mi, assigned,
                 lastStep, result, query>>

\* One call of findShortestPath; fallback records the "No path found" warning.
FindPath ==
  /\ pc = "paths"
  /\ pc' = "found"
  /\ \E start \in QueryPoints, end \in QueryPoints :
       LET search == SearchPath(start, end, roadNetwork)
       IN  query' = << [start |-> start, end |-> end,
                        startNode |-> search.startNode, endNode |-> search.endNode,
                        path |-> findShortestPath(start, end, roadNetwork),
                        fallback |-> ~PathFound(search, roadNetwork)] >>
  /\ UNCHANGED <<data, roadNetwork, machines, fieldStates, currentTime, ticks,
                 mi, assigned, lastStep, result>>

NextRoad ==
  \/ BuildNetwork
  \/ FindPath

SpecRoad == InitRoad /\ [][NextRoad]_vars

----------------------------------------------------------------------------
(* Exact geometry and trace helpers for the properties below. *)

RDiv(a, b) == Rat(a.n * b.d, a.d * b.n)

\* The open interval of parameters t at which a + t (b - a) is strictly
\* between lo and hi; (-1, 2) stands for all t and (1, 0) for none.
AxisInterval(a, b, lo, hi) ==
  IF a = b
  THEN IF RLt(lo, a) /\ RLt(a, hi) THEN << RInt(-1), RInt(2) >> ELSE << RInt(1), RInt(0) >>
  ELSE LET t1 == RDiv(RSub(lo, a), RSub(b, a))
           t2 == RDiv(RSub(hi, a), RSub(b, a))
       IN  << RMin(t1, t2), RMax(t1, t2) >>

\* Some point of the closed segment from p to q (rational coordinates) lies
\* strictly inside the field.
SegmentEntersField(p, q, field) ==
  LET ix == AxisInterval(p.x, q.x, RInt(field.x), RInt(field.x + field.width))
      iy == AxisInterval(p.y, q.y, RInt(field.y), RInt(field.y + field.height))
      lo == RMax(ix[1], iy[1])
      hi == RMin(ix[2], iy[2])
  IN  RLt(lo, hi) /\ RLt(lo, RInt(1)) /\ RLt(RInt(0), hi)

SegmentEntersAnyField(p, q, fields) ==
  \E i \in DOMAIN fields : SegmentEntersField(p, q, fields[i])

CountAction(path, action) ==
  Cardinality({k \in DOMAIN path : path[k].action = action})

TravelActions == {"road_travel", "emergency_road_travel", "return"}

----------------------------------------------------------------------------
(* Properties of the scheduler, under Spec. *)

\* C1: in every schedule result, for every machine, no travel leg (two
\* consecutive trace points, the later one tagged road_travel,
\* emergency_road_travel or return) passes through the strict interior of a
\* field.
TravelAvoidsFieldInteriors ==
  pc = "done" =>
    \A m \in DOMAIN result[1].machines :
      LET path == result[1].machines[m].path
      IN  \A k \in 2..Len(path) :
            path[k].action \in TravelActions =>
              ~SegmentEntersAnyField(RPt(path[k - 1]), RPt(path[k]), data.fields)

\* An assignment of a machine holding its full capacity to a field that is
\* still incomplete afterwards, in which no work was done.
FullMachineDidNoWork ==
  /\ lastStep.kind = "assign"
  /\ lastStep.capacity = data.machineCapacity
  /\ lastStep.capacityUsed = RInt(0)
  /\ ~fieldStates[lastStep.field].isCompleted

\* C4: with at least one machine and machineCapacity >= 0.1 every field is
\* completed: no assignment of a machine holding full capacity leaves an
\* incomplete field unworked, and the returned schedule has every field
\* completed.
EveryFieldIsCompleted ==
  (data.machineCount >= 1 /\ RLe(Rat(1, 10), data.machineCapacity)) =>
    /\ ~FullMachineDidNoWork
    /\ pc = "done" => \A i \in DOMAIN fieldStates : fieldStates[i].isCompleted

DefaultRequest ==
  [machineCount |-> 1, fields |-> DefaultLayout,
   baseStation |-> Pt(RInt(50), RInt(40)),
   machineCapacity |-> RInt(1), supplyDuration |-> 30]

\* C5: for the single 100 x 80 field at the origin, one machine of capacity
\* 1.0, supplyDuration 30 and base station (50, 40): no capacity_full is ever
\* emitted and no supply event logged, and the result has one machine whose
\* path ends with return, the field completed by a single assignment, and
\* totalSupplyEvents = 0.
DefaultFieldDoneInOnePass ==
  data = DefaultRequest =>
    /\ \A m \in DOMAIN machines :
         /\ CountAction(machines[m].path, "capacity_full") = 0
         /\ machines[m].supplyEvents = <<>>
    /\ pc = "done" =>
         /\ Len(result[1].machines) = 1
         /\ LET path == result[1].machines[1].path
            IN  /\ path[Len(path)].action = "return"
                /\ CountAction(path, "field_start") = 1
         /\ fieldStates[1].isCompleted
         /\ result[1].totalSupplyEvents = 0

\* C6: for one field, one machine and machineCapacity 0.5: never more than
\* one capacity_full marker and one supply event are logged, exactly one of
\* each is logged once the field is completed, and the result's
\* totalSupplyEvents is 1.
HalfCapacityOneSupplyCycle ==
  (data.machineCount = 1 /\ Len(data.fields) = 1 /\ data.machineCapacity = Rat(1, 2)) =>
    /\ \A m \in DOMAIN machines :
         /\ CountAction(machines[m].path, "capacity_full") <= 1
         /\ Len(machines[m].supplyEvents) <= 1
         /\ (fieldStates[1].isCompleted =>
               /\ CountAction(machines[m].path, "capacity_full") = 1
               /\ Len(machines[m].supplyEvents) = 1)
    /\ pc = "done" => result[1].totalSupplyEvents = 1

\* The guard of some step of the scheduler holds.
SomeStepEnabled ==
  \/ pc = "start"
  \/ /\ pc = "for"
     /\ mi <= Len(machines)
     /\ \/ machines[mi].currentTime > currentTime
        \/ AvailableField(fieldStates) = 0
        \/ AvailableField(fieldStates) \in DOMAIN fieldStates
  \/ pc \in {"for", "return"} /\ mi > Len(machines)
  \/ pc = "return" /\ mi <= Len(machines)

\* The bounds of the scheduling loop: at most 480 ticks of 60 units, at most
\* one assignment a machine in a tick, a step to take until the result is
\* returned, and a result with one route a machine once it is.
TickCeiling ==
  /\ ticks <= 480
  /\ currentTime = ticks * 60 * TimeScale
  /\ mi <= Len(machines) + 1
  /\ \A m \in DOMAIN assigned : assigned[m] <= 1
  /\ pc # "done" => SomeStepEnabled
  /\ pc = "done" =>
       /\ Len(result) = 1
       /\ Len(result[1].machines) = IF data.fields = <<>> THEN 0 ELSE data.machineCount

Phase(p) == CASE p = "start" -> 0 [] p = "for" -> 1 [] p = "return" -> 2 [] OTHER -> 3

\* Every step advances (phase, ticks, mi) in the lexicographic order.
StepAdvances ==
  \/ Phase(pc') > Phase(pc)
  \/ Phase(pc') = Phase(pc) /\ ticks' > ticks
  \/ Phase(pc') = Phase(pc) /\ ticks' = ticks /\ mi' > mi

\* C9: generateScheduleWithRoadNetwork terminates for every request, zero
\* machines and capacities too small to complete a field included: the outer
\* loop runs at most 480 ticks, each tick gives each machine at most one
\* assignment, every step advances the loop, and a result is returned even
\* when fields never complete.
SchedulerTerminates == []TickCeiling /\ [][StepAdvances]_vars

\* A schedule returned at the time ceiling by machines whose capacity is too
\* small to work, with a field left incomplete.
CeilingReachedWithStarvedMachines ==
  /\ pc = "done"
  /\ ticks = 480
  /\ data.machineCount >= 1
  /\ data.machineCapacity = Rat(1, 25)
  /\ SomeIncomplete(fieldStates)
  /\ Len(result[1].machines) = data.machineCount

\* b is the integer nearest to the rational r, halves upwards (Math.round).
IsRounded(b, r) ==
  /\ RLe(RInt(2 * b - 1), RMul(RInt(2), r))
  /\ RLt(RMul(RInt(2), r), RInt(2 * b + 1))

\* C10: when the fields list is empty, for any machineCount, capacity and base
\* station, no road network is built and no machine state is created, and the
\* result has machines = [], totalTime = 0, efficiency = 0,
\* totalSupplyEvents = 0, roadNetwork = [] and the base station rounded to
\* integers.
EmptyFieldsGiveEmptyResult ==
  data.fields = <<>> =>
    /\ roadNetwork = <<>>
    /\ machines = <<>>
    /\ fieldStates = <<>>
    /\ pc \in {"start", "done"}
    /\ pc = "done" =>
         /\ result[1].machines = <<>>
         /\ result[1].totalTime = RInt(0)
         /\ result[1].efficiency = RInt(0)
         /\ result[1].totalSupplyEvents = 0
         /\ result[1].roadNetwork = <<>>
         /\ IsRounded(result[1].baseStation.x, data.baseStation.x)
         /\ IsRounded(result[1].baseStation.y, data.baseStation.y)

\* The empty result of a request with machines and an off-grid base station.
EmptyResultReturned ==
  /\ pc = "done"
  /\ data.fields = <<>>
  /\ data.machineCount = MaxMachines
  /\ data.baseStation = Pt(Rat(-21, 2), RInt(-10))
  /\ result[1].baseStation = Pt(-10, -10)

----------------------------------------------------------------------------
(* Properties of the road network and the path finder, under SpecRoad. *)

\* The index of a point among the nodes of the network.
NodePoint(i) == Pt(roadNetwork[i].x, roadNetwork[i].y)

NodeIndex(p) == CHOOSE i \in DOMAIN roadNetwork : NodePoint(i) = p

EdgeLength(i, j) == Sqrt(calculateDistance(roadNetwork[i], roadNetwork[j]))

\* Reference shortest distances from one node: relaxation of every node over
\* its connections until nothing changes; -1 marks a node not reached.
RECURSIVE ReferenceRelax(_, _)
ReferenceRelax(adj, d) ==
  LET next == [v \in DOMAIN d |->
                 LET via == {d[u] + EdgeLength(u, v) : u \in {w \in adj[v] : d[w] >= 0}}
                     all == IF d[v] >= 0 THEN via \cup {d[v]} ELSE via
                 IN  IF all = {} THEN -1 ELSE MinOf(all)]
  IN  IF next = d THEN d ELSE ReferenceRelax(adj, next)

ReferenceDistances(source) ==
  ReferenceRelax([v \in DOMAIN roadNetwork |-> Range(roadNetwork[v].connections)],
                 [v \in DOMAIN roadNetwork |-> IF v = source THEN 0 ELSE -1])

RECURSIVE PathLength(_, _)
PathLength(path, k) ==
  IF k >= Len(path) THEN 0
  ELSE Sqrt(calculateDistance(path[k], path[k + 1])) + PathLength(path, k + 1)

IsConnection(a, b) ==
  /\ \E i \in DOMAIN roadNetwork : NodePoint(i) = a
  /\ \E j \in DOMAIN roadNetwork : NodePoint(j) = b
  /\ NodeIndex(b) \in Range(roadNetwork[NodeIndex(a)].connections)

\* C2: when the nearest nodes S and E of the start and the end are distinct
\* and joined by a chain of connections, findShortestPath returns a sequence
\* from S to E whose consecutive points are connections of the network and
\* whose length is the minimum over all chains from S to E.
PathIsShortestChain ==
  (pc = "found" /\ query[1].startNode # query[1].endNode) =>
    LET q == query[1]
        reference == ReferenceDistances(q.startNode)
    IN  reference[q.endNode] >= 0 =>
          /\ q.path[1] = NodePoint(q.startNode)
          /\ q.path[Len(q.path)] = NodePoint(q.endNode)
          /\ \A k \in 1..(Len(q.path) - 1) : IsConnection(q.path[k], q.path[k + 1])
          /\ PathLength(q.path, 1) = reference[q.endNode]

\* C3: findShortestPath falls back to the straight line between the snapped
\* endpoints only when the start node and the end node are not linked by any
\* chain of connections.
FallbackOnlyWhenUnlinked ==
  (pc = "found" /\ query[1].fallback) =>
    ReferenceDistances(query[1].startNode)[query[1].endNode] < 0

\* C7: no node of the road network lies strictly inside any field, the
\* fields of overlapping layouts included.
NoNodeInsideAField ==
  \A i \in DOMAIN roadNetwork : ~isPointInsideAnyField(roadNetwork[i], 1, data.fields)

\* C8 as stated: for every pair of connected nodes, no point of the
\* straight segment between them lies strictly inside any field.
NoConnectionEntersAField ==
  \A i \in DOMAIN roadNetwork : \A j \in Range(roadNetwork[i].connections) :
    ~SegmentEntersAnyField(RPt(NodePoint(i)), RPt(NodePoint(j)), data.fields)

\* The point i tenths of the way from a to b, in tenths of a unit.
TenthPoint(a, b, i) == Pt(10 * a.x + (b.x - a.x) * i, 10 * a.y + (b.y - a.y) * i)

InsideInTenths(p, field) ==
  /\ p.x > 10 * field.x
  /\ p.x < 10 * (field.x + field.width)
  /\ p.y > 10 * field.y
  /\ p.y < 10 * (field.y + field.height)

\* C8 amended: for every pair of connected nodes, none of the nine points
\* that divide the segment between them in tenths lies strictly inside any
\* field.
NoConnectionSampleInsideAField ==
  \A i \in DOMAIN roadNetwork : \A j \in Range(roadNetwork[i].connections) :
    \A k \in 1..9 : \A f \in DOMAIN data.fields :
      ~InsideInTenths(TenthPoint(NodePoint(i), NodePoint(j), k), data.fields[f])

\* A network in which two nodes next to a field are connected although the
\* segment between them clips the field's corner.
ConnectionBesideAField ==
  /\ pc = "paths"
  /\ \E i \in DOMAIN roadNetwork : \E j \in Range(roadNetwork[i].connections) :
       SegmentEntersAnyField(RPt(NodePoint(i)), RPt(NodePoint(j)), data.fields)

----------------------------------------------------------------------------
(* The efficiency scorer and the coverage path generator on their own: each
   is applied once to inputs drawn from bounded sets. *)

\* Final times of machines: none, one tick, and a long run.
FinalTimes == { 0, 60 * TimeScale, 2000 * TimeScale }

\* Fields to cover: the default field, a small one, and one lower than a row.
CoverFields == { Field(1, 0, 0, 100, 80), Field(1, 0, 0, 20, 20), Field(1, 10, -5, 30, 4) }

Fractions == { RInt(0), Rat(1, 32), Rat(1, 4), Rat(1, 2), Rat(31, 32), RInt(1) }

InitPure ==
  /\ data = [machineCount |-> 0, fields |-> <<>>, baseStation |-> Pt(RInt(0), RInt(0)),
             machineCapacity |-> RInt(1), supplyDuration |-> 30]
  /\ roadNetwork = <<>>
  /\ machines = <<>>
  /\ fieldStates = <<>>
  /\ currentTime = 0
  /\ ticks = 0
  /\ pc = "pure"
  /\ mi = 1
  /\ assigned = <<>>
  /\ lastStep = Idle
  /\ result = <<>>
  /\ query = <<>>

\* One call of calculateEfficiency, on machines of the given final times and
\* fields of the given completion flags.
Score ==
  /\ pc = "pure"
  /\ pc' = "scored"
  /\ \E n \in 0..MaxMachines, k \in 1..MaxFields :
       \E times \in [1..n -> FinalTimes], flags \in [1..k -> BOOLEAN] :
         query' = << [machines |-> [i \in 1..n |-> [currentTime |-> times[i]]],
                      fieldStates |-> [i \in 1..k |-> [isCompleted |-> flags[i]]],
                      efficiency |->
                        calculateEfficiency([i \in 1..n |-> [currentTime |-> times[i]]],
                                            [i \in 1..k |-> [isCompleted |-> flags[i]]])] >>
  /\ UNCHANGED <<data, roadNetwork, machines, fieldStates, currentTime, ticks,
                 mi, assigned, lastStep, result>>

\* One call of generateContinuousFieldWorkPath.
Cover ==
  /\ pc = "pure"
  /\ pc' = "covered"
  /\ \E field \in CoverFields, startPercentage \in Fractions, workPercentage \in Fractions :
       /\ RLe(RAdd(startPercentage, workPercentage), RInt(1))
       /\ query' = << [field |-> field, startPercentage |-> startPercentage,
                       workPercentage |-> workPercentage,
                       path |-> generateContinuousFieldWorkPath(field, startPercentage,
                                                                workPercentage)] >>
  /\ UNCHANGED <<data, roadNetwork, machines, fieldStates, currentTime, ticks,
                 mi, assigned, lastStep, result>>

NextPure ==
  \/ Score
  \/ Cover

SpecPure == InitPure /\ [][NextPure]_vars

----------------------------------------------------------------------------
(* Properties of the efficiency scorer. *)

\* A rational that stands for a number (not NaN, not an infinity).
IsNumber(r) == r.d > 0

AllCompleted(fss) == \A i \in DOMAIN fss : fss[i].isCompleted

\* C11: when every field is completed, the efficiency score is a number in
\* [0.5, 1], for any number of machines >= 1 and any final times.
EfficiencyInRangeWhenAllCompleted ==
  (pc = "scored" /\ Len(query[1].machines) >= 1 /\ AllCompleted(query[1].fieldStates)) =>
    /\ IsNumber(query[1].efficiency)
    /\ RLe(Rat(1, 2), query[1].efficiency)
    /\ RLe(query[1].efficiency, RInt(1))

\* A heavy imbalance (one machine never worked, the other ran long) with all
\* fields completed: the score sits on the floor of 0.5.
ImbalanceFlooredAtHalf ==
  /\ pc = "scored"
  /\ Len(query[1].machines) = 2
  /\ query[1].machines[1].currentTime = 0
  /\ query[1].machines[2].currentTime = 2000 * TimeScale
  /\ AllCompleted(query[1].fieldStates)
  /\ query[1].efficiency = Rat(1, 2)

\* C12: for every request with at least one field in which no field is
\* completed when scheduling ends, the reported efficiency is exactly 0.
NoCompletionGivesZeroEfficiency ==
  (pc = "done" /\ data.fields # <<>> /\ \A i \in DOMAIN fieldStates : ~fieldStates[i].isCompleted) =>
    result[1].efficiency = RInt(0)

----------------------------------------------------------------------------
(* Properties of the path finder's end points. *)

\* The point pt is a node of the network and no node is nearer to p.
IsNearestNodeTo(pt, p) ==
  /\ \E i \in DOMAIN roadNetwork : NodePoint(i) = pt
  /\ \A j \in DOMAIN roadNetwork :
       calculateDistance(p, pt) <= calculateDistance(p, roadNetwork[j])

\* C13: findShortestPath(p, p, network) returns a path of one point, or of
\* two identical points, whose total length is zero.
SamePointGivesZeroLengthPath ==
  (pc = "found" /\ query[1].start = query[1].end) =>
    /\ Len(query[1].path) \in {1, 2}
    /\ \A k \in DOMAIN query[1].path : query[1].path[k] = query[1].path[1]
    /\ PathLength(query[1].path, 1) = 0

\* A query from the centre of a field to itself, answered by one point.
SamePointQueried ==
  /\ pc = "found"
  /\ query[1].start = FieldCentre(data.fields[1])
  /\ query[1].end = query[1].start
  /\ Len(query[1].path) = 1

\* C14 as stated: findShortestPath returns at least two points, the first the
\* node nearest to start and the last the node nearest to end.
PathHasAtLeastTwoPoints ==
  pc = "found" =>
    /\ Len(query[1].path) >= 2
    /\ IsNearestNodeTo(query[1].path[1], query[1].start)
    /\ IsNearestNodeTo(query[1].path[Len(query[1].path)], query[1].end)

\* C14: findShortestPath returns a non-empty sequence whose first point is
\* the node nearest to start and whose last point is the node nearest to end;
\* it has at least two points when the nearest nodes of start and end differ,
\* and is that one node when they are the same.
PathJoinsNearestNodes ==
  pc = "found" =>
    /\ Len(query[1].path) >= 1
    /\ IsNearestNodeTo(query[1].path[1], query[1].start)
    /\ IsNearestNodeTo(query[1].path[Len(query[1].path)], query[1].end)
    /\ query[1].startNode # query[1].endNode => Len(query[1].path) >= 2
    /\ query[1].startNode = query[1].endNode => Len(query[1].path) = 1

\* A query from the centre of a field to the base station, which snap to
\* different nodes.
DistinctNodesQueried ==
  /\ pc = "found"
  /\ query[1].start = FieldCentre(data.fields[1])
  /\ query[1].end = gridBaseStation
  /\ query[1].startNode # query[1].endNode
  /\ Len(query[1].path) >= 2

----------------------------------------------------------------------------
(* Properties of the coverage path generator. *)

\* The rows of a field, and the height of row i.
TotalRowsOf(field) == IF field.height >= 2 * rowSpacing THEN field.height \div rowSpacing ELSE 1

RowHeight(field, i) == RAdd(RInt(field.y), Rat(i * field.height, TotalRowsOf(field)))

\* The path of the call is non-empty and starts on the row i with
\* i <= startPercentage * totalRows < i + 1.
StartsOnRowOfStartFraction(q) ==
  /\ Len(q.path) >= 1
  /\ \E i \in 0..(TotalRowsOf(q.field) - 1) :
       /\ RLe(RInt(i), RMul(q.startPercentage, RInt(TotalRowsOf(q.field))))
       /\ RLt(RMul(q.startPercentage, RInt(TotalRowsOf(q.field))), RInt(i + 1))
       /\ q.path[1].y = RowHeight(q.field, i)

\* C15 as stated: for startFraction >= 0 and workFraction >= 0 with
\* startFraction + workFraction <= 1, generateContinuousFieldWorkPath returns
\* a non-empty sequence whose first point lies on row
\* floor(startFraction * totalRows).
CoveragePathNeverEmpty ==
  pc = "covered" => StartsOnRowOfStartFraction(query[1])

\* C15: for startFraction >= 0 and workFraction > 0 with
\* startFraction + workFraction <= 1, generateContinuousFieldWorkPath returns
\* a non-empty sequence whose first point lies on row
\* floor(startFraction * totalRows); with workFraction = 0 the path can be
\* empty.
CoveragePathOfPositiveWork ==
  (pc = "covered" /\ RLt(RInt(0), query[1].workPercentage)) =>
    StartsOnRowOfStartFraction(query[1])

\* A quarter of the default field covered from 1/32 on: the path resumes in
\* the middle of row 0.
CoverageResumedInsideARow ==
  /\ pc = "covered"
  /\ query[1].field = Field(1, 0, 0, 100, 80)
  /\ query[1].startPercentage = Rat(1, 32)
  /\ query[1].workPercentage = Rat(1, 4)
  /\ query[1].path[1] = Pt(RInt(50), RInt(0))

----------------------------------------------------------------------------
(* Properties of the steps of the scheduling loop. *)

\* The points a step appended to the path of machine m.
NewPoints(m) ==
  SubSeq(machines'[m].path, Len(machines[m].path) + 1, Len(machines'[m].path))

IndexesOf(path, action) == {k \in DOMAIN path : path[k].action = action}

AtBase(point) == point.x = gridBaseStation.x /\ point.y = gridBaseStation.y

\* An assignment of a machine whose capacity was below 0.1: road travel, then
\* one supply and its supply_complete at the base, before any field_start;
\* one supply event more, of the supply's time and the configured duration;
\* the full capacity afterwards.
SupplyBeforeWork ==
  (lastStep'.kind = "assign" /\ RLt(machines[lastStep'.machine].currentCapacity, Rat(1, 10))) =>
    LET m == lastStep'.machine
        new == NewPoints(m)
        duration == data.supplyDuration * TimeScale
    IN  /\ Cardinality(IndexesOf(new, "supply")) = 1
        /\ Cardinality(IndexesOf(new, "supply_complete")) = 1
        /\ \A k \in IndexesOf(new, "supply") :
             /\ \A j \in 1..(k - 1) : new[j].action = "road_travel"
             /\ AtBase(new[k])
             /\ k + 1 \in IndexesOf(new, "supply_complete")
             /\ AtBase(new[k + 1])
             /\ new[k + 1].timestamp = new[k].timestamp + duration
             /\ machines'[m].supplyEvents =
                  Append(machines[m].supplyEvents,
                         [time |-> new[k].timestamp, duration |-> duration])
        /\ lastStep'.capacity = data.machineCapacity

RECURSIVE SupplyPoints(_, _)
SupplyPoints(ms, n) ==
  IF n = 0 THEN 0 ELSE CountAction(ms[n].path, "supply") + SupplyPoints(ms, n - 1)

\* C16: a due machine whose capacity is below 0.1 while a field is incomplete
\* emits supply and then supply_complete at the snapped base station before
\* any field_start of that tick, appends exactly one supply event whose time
\* is the supply's timestamp and whose duration is supplyDuration, with
\* supply_complete at the supply's timestamp plus supplyDuration and the
\* capacity equal to machineCapacity afterwards; totalSupplyEvents is the
\* number of supply points over all machine paths.
SupplySequence ==
  /\ [][SupplyBeforeWork]_vars
  /\ [](pc = "done" /\ data.fields # <<>> =>
          result[1].totalSupplyEvents = SupplyPoints(machines, Len(machines)))

\* A machine that resupplied for 30 and then worked in the same assignment.
SuppliedThenWorked ==
  /\ lastStep.kind = "assign"
  /\ lastStep.supplied
  /\ data.supplyDuration = 30
  /\ RLt(RInt(0), lastStep.capacityUsed)
  /\ Len(machines[lastStep.machine].supplyEvents) >= 1

\* An assignment that emits capacity_full at P: only emergency_road_travel
\* points follow, and P is the field's lastWorkPosition and the last point
\* of its work path.
StopsAtCapacityFull ==
  lastStep'.kind = "assign" =>
    LET new == NewPoints(lastStep'.machine)
        after == fieldStates'[lastStep'.field]
    IN  \A k \in IndexesOf(new, "capacity_full") :
          /\ \A j \in (k + 1)..Len(new) : new[j].action = "emergency_road_travel"
          /\ after.lastWorkPosition = << Pt(new[k].x, new[k].y) >>
          /\ after.workPath[Len(after.workPath)] = Pt(new[k].x, new[k].y)

\* An assignment to a field already worked on: its field_start, if it emits
\* one, is at the point where the work on the field stopped (the last point
\* of the field's work path); an assignment without a field_start works
\* nothing.
ResumesWhereWorkStopped ==
  lastStep'.kind = "assign" =>
    LET new == NewPoints(lastStep'.machine)
        before == fieldStates[lastStep'.field]
        after == fieldStates'[lastStep'.field]
    IN  /\ \A k \in IndexesOf(new, "field_start") :
             before.workPath # <<>> =>
               Pt(new[k].x, new[k].y) = before.workPath[Len(before.workPath)]
        /\ IndexesOf(new, "field_start") = {} => after.workPath = before.workPath

\* C17: when a machine emits capacity_full at coverage point P of a field, no
\* further working point follows in that assignment (only
\* emergency_road_travel points), the field's lastWorkPosition becomes P, and
\* the next assignment that works on the field emits its field_start at P.
CapacityFullResumesAtSamePoint ==
  /\ [][StopsAtCapacityFull]_vars
  /\ [][ResumesWhereWorkStopped]_vars

\* A single machine that stopped with capacity_full at a point of the field
\* before it completed the field, and has later started again at that point.
ResumedAtCapacityFullPoint ==
  /\ Len(machines) = 1
  /\ \E k \in DOMAIN machines[1].path : \E j \in DOMAIN machines[1].path :
       /\ k < j
       /\ machines[1].path[k].action = "capacity_full"
       /\ machines[1].path[j].action = "field_start"
       /\ machines[1].path[j].x = machines[1].path[k].x
       /\ machines[1].path[j].y = machines[1].path[k].y
       /\ \A i \in (k + 1)..(j - 1) :
            machines[1].path[i].action \notin {"field_start", "working", "capacity_full"}

----------------------------------------------------------------------------
(* Properties of the field states. *)

\* The flag of every field is set exactly when its completed fraction has
\* reached 0.99.
CompletionFlagExact ==
  \A i \in DOMAIN fieldStates :
    fieldStates[i].isCompleted <=> RLe(Rat(99, 100), fieldStates[i].completedPercentage)

\* No step assigns a machine to a completed field, and no step changes the
\* state of a completed field.
CompletedFieldUntouched ==
  /\ lastStep'.kind = "assign" => ~fieldStates[lastStep'.field].isCompleted
  /\ \A i \in DOMAIN fieldStates :
       fieldStates[i].isCompleted =>
         i \in DOMAIN fieldStates' /\ fieldStates'[i] = fieldStates[i]

\* C18: a field's completion flag is set as soon as an assignment leaves the
\* completed fraction at 0.99 or more and is never cleared; once it is set no
\* machine is assigned to the field again, and its completed fraction,
\* lastWorkPosition and work path never change.
CompletionIsFinal ==
  /\ []CompletionFlagExact
  /\ [][CompletedFieldUntouched]_vars

\* An assignment to the second field made after the first was completed.
AssignedPastCompletedField ==
  /\ lastStep.kind = "assign"
  /\ lastStep.field = 2
  /\ fieldStates[1].isCompleted
  /\ fieldStates[1].completedPercentage = RInt(1)
  /\ RLt(RInt(0), lastStep.capacityUsed)

\* Every field with some work done has only completed fields before it.
WorkedInListOrder ==
  \A i \in DOMAIN fieldStates :
    RLt(RInt(0), fieldStates[i].completedPercentage) =>
      \A j \in 1..(i - 1) : fieldStates[j].isCompleted

\* An assignment goes to a field that is not completed and has only
\* completed fields before it.
AssignsLowestIncomplete ==
  lastStep'.kind = "assign" =>
    /\ lastStep'.field \in DOMAIN fieldStates
    /\ ~fieldStates[lastStep'.field].isCompleted
    /\ \A j \in 1..(lastStep'.field - 1) : fieldStates[j].isCompleted

\* C19: every assignment goes to the lowest-index field that is not yet
\* completed, so a field has a non-zero completed fraction only if all fields
\* before it in list order are completed.
FieldsWorkedInOrder ==
  /\ []WorkedInListOrder
  /\ [][AssignsLowestIncomplete]_vars

\* The second field half worked, the first completed.
SecondFieldPartlyWorked ==
  /\ Len(fieldStates) >= 2
  /\ fieldStates[1].isCompleted
  /\ fieldStates[2].completedPercentage = Rat(1, 2)
  /\ ~fieldStates[2].isCompleted

----------------------------------------------------------------------------
(* Properties of the return to the base. *)

\* The return step of a machine: away from the base, its path grows by road
\* travel and one final return point at the base; at the base, nothing
\* changes.
ReturnsOnlyWhenAway ==
  lastStep'.kind = "return" =>
    LET m == lastStep'.machine
        new == NewPoints(m)
    IN  IF AtBase(machines[m].position)
        THEN machines'[m] = machines[m]
        ELSE /\ Len(new) >= 1
             /\ new[Len(new)].action = "return"
             /\ AtBase(new[Len(new)])
             /\ \A k \in 1..(Len(new) - 1) : new[k].action = "road_travel"

\* When the schedule is returned, every path ends at the base.
PathsEndAtBase ==
  (pc = "done" /\ data.fields # <<>>) =>
    \A m \in DOMAIN machines :
      /\ AtBase(machines[m].path[Len(machines[m].path)])
      /\ result[1].machines[m].path = machines[m].path

\* C20: after the scheduling loop every machine whose position differs from
\* the snapped base station gets a final point tagged return at the base
\* station's coordinates, every machine already at the base gets no return
\* point, and the last point of every machine's path has the base station's
\* coordinates.
EveryMachineEndsAtBase ==
  /\ [][ReturnsOnlyWhenAway]_vars
  /\ []PathsEndAtBase

\* A schedule in which the first machine worked and returned, and the second
\* never left the base and has no return point.
OneReturnedOneStayed ==
  /\ pc = "done"
  /\ Len(machines) = 2
  /\ machines[1].path[Len(machines[1].path)].action = "return"
  /\ Len(machines[2].path) = 1
  /\ CountAction(machines[2].path, "return") = 0

----------------------------------------------------------------------------
(* Properties of the reported total time. *)

\* The timestamp of the last point of a machine's path.
FinalTimestamp(machine) == machine.path[Len(machine.path)].timestamp

\* C21: for every request with at least one field, totalTime is the maximum
\* over the machines of the timestamp of the machine's last path point,
\* divided by 3600, and is a defined non-negative number for every
\* machineCount >= 0.
TotalTimeIsMaxFinalTimeInHours ==
  (pc = "done" /\ data.fields # <<>>) =>
    /\ IsNumber(result[1].totalTime)
    /\ RLe(RInt(0), result[1].totalTime)
    /\ Len(machines) >= 1 =>
         result[1].totalTime =
           Rat(MaxOf({FinalTimestamp(machines[m]) : m \in DOMAIN machines}), 3600 * TimeScale)

----------------------------------------------------------------------------
(* The Number arithmetic of the capacity accounting: IEEE 754 doubles, a
   mantissa of 53 bits rounded to nearest, ties to even.  A positive double
   is [e, m]: m is its mantissa, most significant bit first and set, and e
   the exponent of that bit; zero has the empty mantissa. *)

MantissaBits == 53

DZero == [e |-> 0, m |-> <<>>]

\* 2^e as a double.
DPow2(e) == [e |-> e, m |-> [i \in 1..MantissaBits |-> IF i = 1 THEN 1 ELSE 0]]

\* The bit of x at the exponent p.
BitAt(x, p) == IF x.e - p + 1 \in 1..Len(x.m) THEN x.m[x.e - p + 1] ELSE 0

\* The bit string whose first bit has exponent e, without its leading zeros.
Normalize(e, bits) ==
  IF \A i \in DOMAIN bits : bits[i] = 0 THEN DZero
  ELSE LET k == MinOf({i \in DOMAIN bits : bits[i] = 1})
       IN  [e |-> e - (k - 1), m |-> SubSeq(bits, k, Len(bits))]

\* A mantissa of 53 bits plus one in its last place.
Increment(e, keep) ==
  IF \A i \in DOMAIN keep : keep[i] = 1
  THEN DPow2(e + 1)
  ELSE LET z == MaxOf({i \in DOMAIN keep : keep[i] = 0})
       IN  [e |-> e, m |-> [i \in DOMAIN keep |-> IF i < z THEN keep[i]
                                                   ELSE IF i = z THEN 1 ELSE 0]]

\* The double nearest to an exact value, ties to the even mantissa.
RoundToDouble(x) ==
  IF Len(x.m) <= MantissaBits
  THEN IF Len(x.m) = 0 THEN DZero
       ELSE [e |-> x.e, m |-> [i \in 1..MantissaBits |-> IF i <= Len(x.m) THEN x.m[i] ELSE 0]]
  ELSE LET keep == SubSeq(x.m, 1, MantissaBits)
           sticky == \E i \in (MantissaBits + 2)..Len(x.m) : x.m[i] = 1
       IN  IF x.m[MantissaBits + 1] = 1 /\ (sticky \/ keep[MantissaBits] = 1)
           THEN Increment(x.e, keep)
           ELSE [e |-> x.e, m |-> keep]

\* Bit strings are added, subtracted and divided a chunk of bits at a time.
Powers == << 1, 2, 4, 8, 16, 32, 64, 128, 256, 512, 1024, 2048, 4096, 8192, 16384, 32768,
             65536 >>

ChunkWidth == 16

\* The value of the c-th chunk of w bits, and the w bits of a value.
ChunkValue(bits, c, w) ==
  SumTo([i \in 1..w |-> bits[(c - 1) * w + i] * Powers[w - i + 1]], w)

ChunkBits(v, w) == [i \in 1..w |-> (v \div Powers[w - i + 1]) % 2]

\* The bits of x from the exponent top down, in count whole chunks.
Aligned(x, top, count) == [i \in 1..(count * ChunkWidth) |-> BitAt(x, top - i + 1)]

RECURSIVE AddBits(_, _, _, _, _)
AddBits(A, B, c, carry, out) ==
  IF c = 0 THEN out
  ELSE AddBits(A, B, c - 1,
               (ChunkValue(A, c, ChunkWidth) + ChunkValue(B, c, ChunkWidth) + carry)
                 \div Powers[ChunkWidth + 1],
               ChunkBits((ChunkValue(A, c, ChunkWidth) + ChunkValue(B, c, ChunkWidth) + carry)
                           % Powers[ChunkWidth + 1], ChunkWidth) \o out)

RECURSIVE SubBits(_, _, _, _, _)
SubBits(A, B, c, borrow, out) ==
  IF c = 0 THEN out
  ELSE SubBits(A, B, c - 1,
               IF ChunkValue(A, c, ChunkWidth) - ChunkValue(B, c, ChunkWidth) - borrow < 0
               THEN 1 ELSE 0,
               ChunkBits((ChunkValue(A, c, ChunkWidth) - ChunkValue(B, c, ChunkWidth) - borrow
                            + Powers[ChunkWidth + 1]) % Powers[ChunkWidth + 1],
                         ChunkWidth) \o out)

\* The chunks that hold the bits of a and b from the exponent top down.
ChunkCount(a, b, top) ==
  (top - MinInt(a.e - Len(a.m) + 1, b.e - Len(b.m) + 1) + ChunkWidth) \div ChunkWidth

\* a + b of two doubles.
DAdd(a, b) ==
  IF Len(a.m) = 0 THEN b
  ELSE IF Len(b.m) = 0 THEN a
  ELSE LET top == MaxInt(a.e, b.e) + 1
           count == ChunkCount(a, b, top)
       IN  RoundToDouble(Normalize(top, AddBits(Aligned(a, top, count), Aligned(b, top, count),
                                                count, 0, <<>>)))

\* a < b of two doubles that are not negative.
DLess(a, b) ==
  IF Len(b.m) = 0 THEN FALSE
  ELSE IF Len(a.m) = 0 THEN TRUE
  ELSE \/ a.e < b.e
       \/ /\ a.e = b.e
          /\ \E i \in 1..MantissaBits :
               a.m[i] < b.m[i] /\ \A j \in 1..(i - 1) : a.m[j] = b.m[j]

\* The size of a - b for doubles a >= b > 0.
DDifference(a, b) ==
  LET count == ChunkCount(a, b, a.e)
  IN  RoundToDouble(Normalize(a.e, SubBits(Aligned(a, a.e, count), Aligned(b, a.e, count),
                                           count, 0, <<>>)))

\* a - b of two doubles that are not negative: the sign and the size of the
\* difference.
DSub(a, b) ==
  IF Len(b.m) = 0 THEN [negative |-> FALSE, size |-> a]
  ELSE IF Len(a.m) = 0 THEN [negative |-> TRUE, size |-> b]
  ELSE IF DLess(a, b) THEN [negative |-> TRUE, size |-> DDifference(b, a)]
  ELSE [negative |-> FALSE, size |-> DDifference(a, b)]

\* The long division of a mantissa by the integer n, 8 bits a step: the
\* quotient bits, then a last bit that is set when a remainder is left.
DivisionSteps == 8

RECURSIVE DivBits(_, _, _, _, _)
DivBits(m, n, c, r, out) ==
  IF c > DivisionSteps THEN Append(out, IF r = 0 THEN 0 ELSE 1)
  ELSE DivBits(m, n, c + 1, (r * Powers[9] + ChunkValue(m, c, 8)) % n,
               out \o ChunkBits((r * Powers[9] + ChunkValue(m, c, 8)) \div n, 8))

\* a / n of a double and an integer 1 <= n < 128.
DDivInt(a, n) ==
  IF Len(a.m) = 0 THEN DZero
  ELSE RoundToDouble(Normalize(a.e,
         DivBits([i \in 1..(8 * DivisionSteps) |-> IF i <= Len(a.m) THEN a.m[i] ELSE 0],
                 n, 1, 0, <<>>)))

----------------------------------------------------------------------------
(* The capacity accounting of one assignment in Number arithmetic: a machine
   of full capacity works a field that is fresh or half done. *)

\* Machine capacities 2^-k, and fields of 1 to 13 rows.
CapacityExponents == 0..3

WorkedFields == { Field(1, 0, 0, 20, 5 * rows) : rows \in 1..13 }

\* The literal 0.05.
workThresholdNumber == DDivInt(DPow2(0), 20)

\* Math.min of two doubles that are not negative.
DMin(a, b) == IF DLess(b, a) THEN b ELSE a

\* The loop over the n coverage points, as far as the capacity goes: the
\* capacity used when the loop ends or breaks.
RECURSIVE CapacityLoop(_, _, _, _, _)
CapacityLoop(n, i, currentCapacity, capacityPerPoint, currentCapacityUsed) ==
  IF i > n THEN currentCapacityUsed
  ELSE LET nextCapacityUsed == DAdd(currentCapacityUsed, capacityPerPoint)
           left == DSub(currentCapacity, nextCapacityUsed)
       IN  IF left.negative \/ DLess(left.size, workThresholdNumber)
           THEN nextCapacityUsed
           ELSE CapacityLoop(n, i + 1, currentCapacity, capacityPerPoint, nextCapacityUsed)

\* The capacity an assignment uses: nothing when the available capacity is at
\* most 0.05 or the coverage path is empty.
CapacityUsed(currentCapacity, availableCapacity, n) ==
  IF ~DLess(workThresholdNumber, availableCapacity) \/ n = 0 THEN DZero
  ELSE CapacityLoop(n, 1, currentCapacity, DDivInt(availableCapacity, n), DZero)

\* The numbers of one assignment: the machine's capacity is 2^-k, the field's
\* completed fraction is 0 or 0.5.
Accounts(field, k, resumed) ==
  LET machineCapacity == DPow2(-k)
      completedPercentage == IF resumed THEN DPow2(-1) ELSE DZero
      remainingWork == DSub(DPow2(0), completedPercentage).size
      availableCapacity == DMin(machineCapacity, remainingWork)
      n == Len(generateContinuousFieldWorkPath(
                 field, IF resumed THEN Rat(1, 2) ELSE RInt(0),
                 RMin(Rat(1, Powers[k + 1]), IF resumed THEN Rat(1, 2) ELSE RInt(1))))
      capacityUsed == CapacityUsed(machineCapacity, availableCapacity, n)
  IN  [field |-> field, machineCapacity |-> machineCapacity,
       completedBefore |-> completedPercentage, remainingWork |-> remainingWork,
       points |-> n, capacityUsed |-> capacityUsed,
       currentCapacity |-> DSub(machineCapacity, capacityUsed),
       completedPercentage |-> DAdd(completedPercentage, capacityUsed)]

InitAccounts ==
  /\ data = [machineCount |-> 1, fields |-> <<>>, baseStation |-> Pt(RInt(0), RInt(0)),
             machineCapacity |-> RInt(1), supplyDuration |-> 30]
  /\ roadNetwork = <<>>
  /\ machines = <<>>
  /\ fieldStates = <<>>
  /\ currentTime = 0
  /\ ticks = 0
  /\ pc = "accounts"
  /\ mi = 1
  /\ assigned = <<>>
  /\ lastStep = Idle
  /\ result = <<>>
  /\ query = <<>>

\* One assignment's capacity accounting.
Account ==
  /\ pc = "accounts"
  /\ pc' = "accounted"
  /\ \E field \in WorkedFields, k \in CapacityExponents, resumed \in BOOLEAN :
       query' = << Accounts(field, k, resumed) >>
  /\ UNCHANGED <<data, roadNetwork, machines, fieldStates, currentTime, ticks,
                 mi, assigned, lastStep, result>>

NextAccounts == Account

SpecAccounts == InitAccounts /\ [][NextAccounts]_vars

----------------------------------------------------------------------------
(* Properties of the amounts of work and capacity. *)

\* With exact arithmetic, the completed fraction of every field is a number
\* from 0 to 1.
FractionWithinUnit ==
  \A i \in DOMAIN fieldStates :
    /\ IsNumber(fieldStates[i].completedPercentage)
    /\ RLe(RInt(0), fieldStates[i].completedPercentage)
    /\ RLe(fieldStates[i].completedPercentage, RInt(1))

\* With exact arithmetic, an assignment adds to its field between nothing and
\* the field's remaining work.
AddsAtMostRemainingWork ==
  lastStep'.kind = "assign" =>
    LET before == fieldStates[lastStep'.field].completedPercentage
        after == fieldStates'[lastStep'.field].completedPercentage
    IN  /\ RLe(before, after)
        /\ RLe(RSub(after, before), RSub(RInt(1), before))
        /\ RSub(after, before) = lastStep'.capacityUsed

ExactFractionBounded ==
  /\ []FractionWithinUnit
  /\ [][AddsAtMostRemainingWork]_vars

\* C22: every field's completed fraction lies in [0, 1]: each assignment adds
\* an amount between 0 and the field's remaining work.
CompletedFractionBounded ==
  pc = "accounted" =>
    /\ ~DLess(DPow2(0), query[1].completedPercentage)
    /\ ~DLess(query[1].remainingWork, query[1].capacityUsed)

----------------------------------------------------------------------------
(* Properties of resumed work. *)

\* The first coverage point of an assignment's new points: the point after
\* its field_start.
FirstCoveragePoint(new) == new[MinOf(IndexesOf(new, "field_start")) + 1]

\* The point q continues the trace that stopped at p: it is p, or the start
\* of the next row straight above the end of the row that p ended.
ContinuesFrom(q, p) ==
  \/ q.x = p.x /\ q.y = p.y
  \/ q.x = p.x /\ p.y < q.y /\ q.y < p.y + 2 * rowSpacing

\* C23: when a machine resumes a partially worked field, the first coverage
\* point of the resumed work is the point at which the previous work on the
\* field stopped (its lastWorkPosition): no jump, and no stretch of the row
\* covered again or skipped.
ResumesAtLastWorkPosition ==
  [][(/\ lastStep'.kind = "assign"
      /\ RLt(RInt(0), fieldStates[lastStep'.field].completedPercentage)
      /\ RLt(RInt(0), lastStep'.capacityUsed))
       => ContinuesFrom(FirstCoveragePoint(NewPoints(lastStep'.machine)),
                        fieldStates[lastStep'.field].lastWorkPosition[1])]_vars

----------------------------------------------------------------------------
(* Properties of the connections of the road network. *)

Neighbours(i) == Range(roadNetwork[i].connections)

\* No point i/10 of the way from node a to node b, i = 1..9, is strictly
\* inside a field.
SamplesClearOfFields(a, b) ==
  \A k \in 1..9 : \A f \in DOMAIN data.fields :
    ~InsideInTenths(TenthPoint(NodePoint(a), NodePoint(b), k), data.fields[f])

WithinFifteen(a, b) == calculateDistance(NodePoint(a), NodePoint(b)) <= 15 * 15

\* With whole-number coordinates: in the network the builder returns, two
\* distinct nodes are connected exactly when they are at most 15 apart and
\* none of the nine interpolated points between them is strictly inside a
\* field; the relation is symmetric, no node is connected to itself and no
\* neighbour is listed twice.
WholeNumberConnectionsFollowRule ==
  pc = "paths" =>
    \A a \in DOMAIN roadNetwork :
      /\ a \notin Neighbours(a)
      /\ Len(roadNetwork[a].connections) = Cardinality(Neighbours(a))
      /\ \A b \in DOMAIN roadNetwork \ {a} :
           /\ b \in Neighbours(a) <=> WithinFifteen(a, b) /\ SamplesClearOfFields(a, b)
           /\ b \in Neighbours(a) <=> a \in Neighbours(b)

----------------------------------------------------------------------------
(* Properties of the base station and the field corners in the network. *)

HasNodeAt(p) == \E i \in DOMAIN roadNetwork : NodePoint(i) = p

BaseStationInsideAField ==
  \E f \in DOMAIN data.fields :
    /\ gridBaseStation.x > data.fields[f].x
    /\ gridBaseStation.x < data.fields[f].x + data.fields[f].width
    /\ gridBaseStation.y > data.fields[f].y
    /\ gridBaseStation.y < data.fields[f].y + data.fields[f].height

CornersAreNodes ==
  \A f \in DOMAIN data.fields : \A dx \in {0, data.fields[f].width} :
    \A dy \in {0, data.fields[f].height} :
      HasNodeAt(Pt(data.fields[f].x + dx, data.fields[f].y + dy))

\* The last road point of every leg a machine travelled to the base station
\* (before a supply, as an emergency return, or before the final return) is
\* a node nearest to the base station.
LegsToBaseEndAtNearestNode ==
  \A m \in DOMAIN machines :
    LET path == machines[m].path
    IN  \A k \in 1..(Len(path) - 1) :
          \/ /\ path[k].action = "road_travel"
             /\ path[k + 1].action \in {"supply", "return"}
          \/ /\ path[k].action = "emergency_road_travel"
             /\ path[k + 1].action # "emergency_road_travel"
          => IsNearestNodeTo(Pt(path[k].x, path[k].y), gridBaseStation)

----------------------------------------------------------------------------
(* Properties of the actions tagged on the points of a path. *)

LaterActions ==
  {"road_travel", "field_start", "working", "capacity_full", "emergency_road_travel",
   "supply", "supply_complete", "return"}

\* The order of the actions along one path: start first and only first,
\* return last if at all, work points in a run that a field_start opens,
\* emergency points in a run that a capacity_full opens.
ActionsInOrder(path) ==
  /\ Len(path) >= 1
  /\ path[1].action = "start"
  /\ path[1].timestamp = 0
  /\ AtBase(path[1])
  /\ \A k \in 2..Len(path) :
       /\ path[k].action \in LaterActions
       /\ path[k].action = "return" => k = Len(path)
       /\ path[k].action \in {"working", "capacity_full"} =>
            path[k - 1].action \in {"field_start", "working"}
       /\ path[k].action = "emergency_road_travel" =>
            path[k - 1].action \in {"capacity_full", "emergency_road_travel"}

\* Among the points one assignment adds to a path, every work point comes
\* after a field_start and every emergency point after a capacity_full.
AssignmentOrdersActions ==
  lastStep'.kind = "assign" =>
    LET new == NewPoints(lastStep'.machine)
    IN  /\ \A k \in IndexesOf(new, "working") \cup IndexesOf(new, "capacity_full") :
             \E j \in IndexesOf(new, "field_start") : j < k
        /\ \A k \in IndexesOf(new, "emergency_road_travel") :
             \E j \in IndexesOf(new, "capacity_full") : j < k

\* C26: the first point of every machine's path is its only start point, at
\* time 0 at the snapped base station; every later action is one of the
\* eight others; return occurs only as the last point; a working or
\* capacity_full point comes only after a field_start of the same
\* assignment, an emergency_road_travel point only after a capacity_full of
\* the same assignment.
PathsObeyActionOrder ==
  /\ [](\A m \in DOMAIN machines : ActionsInOrder(machines[m].path))
  /\ [][AssignmentOrdersActions]_vars

\* A returned path that has every action: supply, work up to capacity_full,
\* an emergency return, and the final return.
PathWithEveryAction ==
  /\ pc = "done"
  /\ \E m \in DOMAIN machines :
       {machines[m].path[k].action : k \in DOMAIN machines[m].path}
         = LaterActions \cup {"start"}

----------------------------------------------------------------------------
(* Properties of an assignment that has nothing to work with. *)

\* The assignment just made found at most 0.05 to work with: the smaller of
\* the machine's capacity, after the supply check, and the field's remaining
\* work.
NothingToWork ==
  /\ lastStep'.kind = "assign"
  /\ RLe(RMin(lastStep'.capacity,
              RMax(RInt(0), RSub(RInt(1), fieldStates[lastStep'.field].completedPercentage))),
         Rat(1, 20))

\* The machine as the supply check left it: supplied when its capacity was
\* below 0.1, else as it was.
AsSupplyCheckLeftIt(m) ==
  IF lastStep'.supplied
  THEN Resupply(machines[m], gridBaseStation, roadNetwork, data.machineCapacity,
                data.supplyDuration)
  ELSE machines[m]

MachineUntouchedByWork ==
  LET m == lastStep'.machine
      before == AsSupplyCheckLeftIt(m)
  IN  /\ machines'[m].path = before.path
      /\ machines'[m].currentTime = before.currentTime
      /\ machines'[m].currentCapacity = before.currentCapacity
      /\ machines'[m].position = before.position

FieldProgressUntouched ==
  LET f == lastStep'.field
  IN  /\ fieldStates'[f].completedPercentage = fieldStates[f].completedPercentage
      /\ fieldStates'[f].isCompleted = fieldStates[f].isCompleted
      /\ fieldStates'[f].workPath = fieldStates[f].workPath

\* The parts of the statement below that do not concern lastWorkPosition.
NoWorkLeavesProgressUnchanged ==
  [][NothingToWork => MachineUntouchedByWork /\ FieldProgressUntouched]_vars

\* C27: an assignment in which the smaller of the machine's capacity and the
\* field's remaining work is at most 0.05 works nothing and changes nothing:
\* the machine's path, time, capacity and position, and the field's
\* completed fraction, completion flag, lastWorkPosition and work path are
\* as they were.
NoWorkChangesNothing ==
  [][NothingToWork =>
       /\ MachineUntouchedByWork
       /\ FieldProgressUntouched
       /\ fieldStates'[lastStep'.field].lastWorkPosition
            = fieldStates[lastStep'.field].lastWorkPosition]_vars

----------------------------------------------------------------------------
(* The clock of one assignment in Number arithmetic: the first assignment of
   a machine whose base station is the corner of the field at the end of the
   first row, and whose capacity, below the supply threshold, lasts for one
   coverage point.  The machine is supplied where it stands, starts the field
   at that corner without travel and stops at the corner again. *)

\* The double of an integer 0 <= n < 65536.
DInt(n) == RoundToDouble(Normalize(ChunkWidth - 1, ChunkBits(n, ChunkWidth)))

RECURSIVE MulBits(_, _, _, _, _)
MulBits(A, k, c, carry, out) ==
  IF c = 0 THEN ChunkBits(carry, ChunkWidth) \o out
  ELSE MulBits(A, k, c - 1,
               (ChunkValue(A, c, ChunkWidth) * k + carry) \div Powers[ChunkWidth + 1],
               ChunkBits((ChunkValue(A, c, ChunkWidth) * k + carry) % Powers[ChunkWidth + 1],
                         ChunkWidth) \o out)

\* a * k of a double and an integer 1 <= k < 32768.
DMulInt(a, k) ==
  IF Len(a.m) = 0 THEN DZero
  ELSE RoundToDouble(Normalize(a.e + ChunkWidth, MulBits(Aligned(a, a.e, 4), k, 4, 0, <<>>)))

\* Fields of 15 to 20 rows with the base station at their second corner,
\* capacities of 0.07 to 0.09, supply durations of 0, 30 and 100.
ClockRequests ==
  { [machineCount |-> 1, fields |-> <<field>>,
     baseStation |-> Pt(RInt(field.x + field.width), RInt(field.y)),
     machineCapacity |-> capacity, supplyDuration |-> duration] :
      field \in { Field(1, 0, 0, width, 5 * rows) : width \in {20, 40}, rows \in 15..20 },
      capacity \in { Rat(7, 100), Rat(8, 100), Rat(9, 100) },
      duration \in { 0, 30, 100 } }

\* The loop over the n coverage points: the timestamps of the working points
\* and of the capacity_full point, the work time, and the index of the point
\* at which the capacity was full (0 when the loop ran to its end).
RECURSIVE ClockLoop(_, _, _, _, _, _, _)
ClockLoop(n, i, machine, capacityPerPoint, timePerPoint, currentCapacityUsed, acc) ==
  IF i > n THEN acc
  ELSE LET nextCapacityUsed == DAdd(currentCapacityUsed, capacityPerPoint)
           left == DSub(machine.currentCapacity, nextCapacityUsed)
       IN  IF left.negative \/ DLess(left.size, workThresholdNumber)
           THEN [timestamps |-> Append(acc.timestamps,
                                       DAdd(DAdd(machine.currentTime, acc.workTime),
                                            timePerPoint)),
                 workTime |-> DAdd(acc.workTime, timePerPoint),
                 full |-> i]
           ELSE ClockLoop(n, i + 1, machine, capacityPerPoint, timePerPoint, nextCapacityUsed,
                          [timestamps |-> Append(acc.timestamps,
                                                 DAdd(machine.currentTime,
                                                      DAdd(acc.workTime, timePerPoint))),
                           workTime |-> DAdd(acc.workTime, timePerPoint),
                           full |-> 0])

\* The first assignment of the machine: the supply check, the arrival at the
\* field, the work loop, and the clock as the caller advances it.  travel
\* and back are the road paths to the field and, from the point of
\* capacity_full, to the base; both are single points here, so no road point
\* is pushed and no travel time added.
FirstAssignmentClock(field, baseStation, capacity, supplyDuration, roadNet) ==
  LET machineCapacity == DDivInt(DInt((100 * capacity.n) \div capacity.d), 100)
      supplied == DLess(machineCapacity, DDivInt(DInt(1), 10))
      arrival == IF supplied THEN DAdd(DZero, DInt(supplyDuration)) ELSE DZero
      workStartPoint == selectOptimalFieldEntryPoint(field, baseStation, <<>>)
      travel == findShortestPath(baseStation, workStartPoint, roadNet)
      fieldWorkPath == generateContinuousFieldWorkPath(field, RInt(0), capacity)
      n == Len(fieldWorkPath)
      done == ClockLoop(n, 1, [currentCapacity |-> machineCapacity, currentTime |-> arrival],
                        DDivInt(machineCapacity, n),
                        DDivInt(DMulInt(machineCapacity, workTimePerField), n), DZero,
                        [timestamps |-> <<arrival>>, workTime |-> DZero, full |-> 0])
      gridPoint == snapToGrid(fieldWorkPath[MaxInt(1, done.full)])
      back == findShortestPath(gridPoint, baseStation, roadNet)
  IN  [supplied |-> supplied, travel |-> travel, points |-> n, full |-> done.full,
       back |-> back, timestamps |-> done.timestamps,
       currentTime |-> DAdd(arrival, done.workTime)]

InitClock ==
  /\ data \in ClockRequests
  /\ roadNetwork = <<>>
  /\ machines = <<>>
  /\ fieldStates = <<>>
  /\ currentTime = 0
  /\ ticks = 0
  /\ pc = "clock"
  /\ mi = 1
  /\ assigned = <<>>
  /\ lastStep = Idle
  /\ result = <<>>
  /\ query = <<>>

\* The network is built and the first assignment made.
Clock ==
  /\ pc = "clock"
  /\ pc' = "timed"
  /\ roadNetwork' = generateFieldRoadNetwork(data.fields, gridBaseStation)
  /\ query' = << FirstAssignmentClock(data.fields[1], gridBaseStation, data.machineCapacity,
                                      data.supplyDuration, roadNetwork') >>
  /\ UNCHANGED <<data, machines, fieldStates, currentTime, ticks, mi, assigned,
                 lastStep, result>>

NextClock == Clock

SpecClock == InitClock /\ [][NextClock]_vars

----------------------------------------------------------------------------
(* Properties of the timestamps of a path. *)

\* With exact arithmetic, in every machine's path the timestamps never
\* decrease from one point to the next.
ExactTimestampsNeverDecrease ==
  \A m \in DOMAIN machines :
    \A k \in 1..(Len(machines[m].path) - 1) :
      machines[m].path[k].timestamp <= machines[m].path[k + 1].timestamp

\* The assignment is of the kind described: supplied first, no road point on
\* the way to the field, stopped by capacity_full, no road point on the way
\* back.
StoppedAtTheBase ==
  /\ pc = "timed"
  /\ query[1].supplied
  /\ Len(query[1].travel) = 1
  /\ query[1].full > 0
  /\ Len(query[1].back) = 1

\* C28: in every machine's path the timestamps never decrease from the first
\* point to the last, across travel legs, field work, capacity_full returns,
\* resupply and the final return, for every supply duration from 0 up.  Here:
\* from field_start over the working points to capacity_full, and from
\* capacity_full to the next point of the path, which is pushed at the
\* machine's clock.
TimestampsNeverDecrease ==
  StoppedAtTheBase =>
    /\ \A k \in 1..(Len(query[1].timestamps) - 1) :
         ~DLess(query[1].timestamps[k + 1], query[1].timestamps[k])
    /\ ~DLess(query[1].currentTime, query[1].timestamps[Len(query[1].timestamps)])

----------------------------------------------------------------------------
(* Properties of the machines' capacity. *)

\* With exact arithmetic, every machine's capacity is from 0 to the
\* configured capacity.
CapacityWithinBounds ==
  \A m \in DOMAIN machines :
    /\ RLe(RInt(0), machines[m].currentCapacity)
    /\ RLe(machines[m].currentCapacity, data.machineCapacity)

\* With exact arithmetic, an assignment takes from the machine's capacity,
\* as the supply check left it, what it adds to the field; no other step
\* changes a capacity, and a capacity grows only by a supply, to the
\* configured capacity.
CapacityMovesToTheField ==
  /\ lastStep'.kind = "assign" =>
       LET m == lastStep'.machine
           f == lastStep'.field
       IN  /\ machines'[m].currentCapacity = RSub(lastStep'.capacity, lastStep'.capacityUsed)
           /\ fieldStates'[f].completedPercentage
                = RAdd(fieldStates[f].completedPercentage, lastStep'.capacityUsed)
           /\ lastStep'.capacity # machines[m].currentCapacity =>
                lastStep'.supplied /\ lastStep'.capacity = data.machineCapacity
  /\ \A m \in DOMAIN machines \cap DOMAIN machines' :
       RLt(machines[m].currentCapacity, machines'[m].currentCapacity) =>
         lastStep'.kind = "assign" /\ lastStep'.machine = m /\ lastStep'.supplied

ExactCapacityConserved ==
  /\ []CapacityWithinBounds
  /\ [][CapacityMovesToTheField]_vars

\* C29: capacity is conserved: an assignment lowers the machine's capacity by
\* the amount it adds to the field's completed fraction, and the capacity
\* stays from 0 to the configured capacity.  Here: the capacity a machine of
\* full capacity is left with after one assignment is not negative and not
\* above the full capacity.
CapacityStaysWithinBounds ==
  pc = "accounted" =>
    /\ ~query[1].currentCapacity.negative
    /\ ~DLess(query[1].machineCapacity, query[1].currentCapacity.size)

----------------------------------------------------------------------------
(* Properties of the machines' recorded position. *)

LastPoint(machine) == machine.path[Len(machine.path)]

\* C30: between assignments every machine's recorded position has the
\* coordinates of the last point of its path, so that its next leg starts
\* where its trace ended; after a capacity_full return to the base the
\* machine is at the base.
PositionIsEndOfTrace ==
  pc = "for" =>
    \A m \in DOMAIN machines :
      /\ machines[m].position.x = LastPoint(machines[m]).x
      /\ machines[m].position.y = LastPoint(machines[m]).y

----------------------------------------------------------------------------
(* The connections of the road network in Number arithmetic, for fields whose
   coordinates are decimal fractions: Numbers with a sign, their product,
   and the builder's tests on them. *)

\* A Number of the given sign and size; zero has no sign.
Signed(negative, size) == [negative |-> negative /\ Len(size.m) > 0, size |-> size]

\* The Number nearest to the rational r.
NumberOf(r) == Signed(r.n < 0, DDivInt(DInt(Abs(r.n)), r.d))

SAdd(a, b) ==
  IF a.negative = b.negative THEN Signed(a.negative, DAdd(a.size, b.size))
  ELSE LET d == DSub(a.size, b.size)
       IN  Signed(a.negative # d.negative, d.size)

SLess(a, b) ==
  IF a.negative # b.negative THEN a.negative
  ELSE IF a.negative THEN DLess(b.size, a.size)
  ELSE DLess(a.size, b.size)

\* The product of two mantissas of four chunks of 14 bits, a column of chunk
\* products at a time from the last.
RECURSIVE MulColumns(_, _, _, _, _)
MulColumns(A, B, c, carry, out) ==
  IF c = 1 THEN ChunkBits(carry, 14) \o out
  ELSE LET column == SumTo([i \in 1..4 |-> IF c - i \in 1..4
                                            THEN ChunkValue(A, i, 14) * ChunkValue(B, c - i, 14)
                                            ELSE 0], 4) + carry
       IN  MulColumns(A, B, c - 1, column \div Powers[15],
                      ChunkBits(column % Powers[15], 14) \o out)

\* a * b of two doubles.
DMul(a, b) ==
  IF Len(a.m) = 0 \/ Len(b.m) = 0 THEN DZero
  ELSE RoundToDouble(Normalize(a.e + b.e + 1,
         MulColumns([i \in 1..56 |-> BitAt(a, a.e - i + 1)],
                    [i \in 1..56 |-> BitAt(b, b.e - i + 1)], 8, 0, <<>>)))

\* A field whose coordinates are Numbers, with its far edges x + width and
\* y + height.
NumberField(field) ==
  [x |-> NumberOf(field.x), y |-> NumberOf(field.y),
   right |-> SAdd(NumberOf(field.x), NumberOf(field.width)),
   bottom |-> SAdd(NumberOf(field.y), NumberOf(field.height))]

isInsideAnyNumberField(point, fields) ==
  \E i \in DOMAIN fields :
    /\ SLess(fields[i].x, point.x)
    /\ SLess(point.x, fields[i].right)
    /\ SLess(fields[i].y, point.y)
    /\ SLess(point.y, fields[i].bottom)

\* The test of a pair of nodes in the nested forEach.  The distance is at
\* most 15 exactly when the sum of the squares is at most 225: the square
\* root is rounded correctly and the next Number above 225 has a root above
\* the middle of 15 and the Number after it.
ShouldConnectNumbers(node, otherNode, fields) ==
  LET Minus(a, b) == SAdd(a, Signed(~b.negative, b.size))
      dx == Minus(otherNode.x, node.x)
      dy == Minus(otherNode.y, node.y)
      \* from + (to - from) * t with t = i / steps
      Along(from, d, i) ==
        SAdd(from, Signed(d.negative, DMul(d.size, DDivInt(DInt(i), steps))))
  IN  /\ node # otherNode
      /\ ~DLess(DInt(225), DAdd(DMul(dx.size, dx.size), DMul(dy.size, dy.size)))
      /\ \A i \in 1..(steps - 1) :
           ~isInsideAnyNumberField(Pt(Along(node.x, dx, i), Along(node.y, dy, i)), fields)

\* for (v = from; v <= to; v += roadSpacing)
RECURSIVE GridLine(_, _, _)
GridLine(v, to, line) ==
  IF SLess(to, v) THEN line
  ELSE GridLine(SAdd(v, NumberOf(RInt(roadSpacing))), to, Append(line, v))

\* The nodes the builder pushes: the grid points outside the fields, the
\* base station and the corners, each unless its key is present.
NumberNodes(fields, baseStation) ==
  LET margin == NumberOf(RInt(roadMargin))
      Least(S) == CHOOSE v \in S : \A w \in S : ~SLess(w, v)
      Greatest(S) == CHOOSE v \in S : \A w \in S : ~SLess(v, w)
      SSub(a, b) == SAdd(a, Signed(~b.negative, b.size))
      xs == GridLine(SSub(Least({fields[i].x : i \in DOMAIN fields} \cup {baseStation.x}), margin),
                     SAdd(Greatest({fields[i].right : i \in DOMAIN fields}
                                     \cup {baseStation.x}), margin), <<>>)
      ys == GridLine(SSub(Least({fields[i].y : i \in DOMAIN fields} \cup {baseStation.y}), margin),
                     SAdd(Greatest({fields[i].bottom : i \in DOMAIN fields}
                                     \cup {baseStation.y}), margin), <<>>)
      grid == SelectSeq([k \in 1..(Len(xs) * Len(ys)) |->
                           Pt(xs[(k - 1) \div Len(ys) + 1], ys[((k - 1) % Len(ys)) + 1])],
                        LAMBDA p : ~isInsideAnyNumberField(p, fields))
      based == IF ~isInsideAnyNumberField(baseStation, fields)
               THEN AddNode(grid, baseStation) ELSE grid
      corners == [k \in 1..(4 * Len(fields)) |->
                    LET field == fields[(k - 1) \div 4 + 1]
                    IN  Pt(IF k % 2 = 1 THEN field.x ELSE field.right,
                           IF (k - 1) % 4 < 2 THEN field.y ELSE field.bottom)]
  IN  AddNodes(based, corners)

\* A thin field on a decimal position and the same field on a whole one.
SampleRequests ==
  { [machineCount |-> 1,
     fields |-> << [id |-> 1, x |-> x, y |-> RInt(1), width |-> RInt(20),
                    height |-> Rat(12, 5)] >>,
     baseStation |-> Pt(RInt(35), RInt(-17)),
     machineCapacity |-> RInt(1), supplyDuration |-> 30] : x \in {Rat(13, 10), RInt(1)} }

InitSamples ==
  /\ data \in SampleRequests
  /\ roadNetwork = <<>>
  /\ machines = <<>>
  /\ fieldStates = <<>>
  /\ currentTime = 0
  /\ ticks = 0
  /\ pc = "nodes"
  /\ mi = 1
  /\ assigned = <<>>
  /\ lastStep = Idle
  /\ result = <<>>
  /\ query = <<>>

\* The nodes of the network, before they are connected.
PushNodes ==
  /\ pc = "nodes"
  /\ pc' = "connect"
  /\ roadNetwork' =
       LET nodes == NumberNodes([i \in DOMAIN data.fields |-> NumberField(data.fields[i])],
                                Pt(NumberOf(RInt(gridBaseStation.x)),
                                   NumberOf(RInt(gridBaseStation.y))))
       IN  [i \in DOMAIN nodes |-> [x |-> nodes[i].x, y |-> nodes[i].y, connections |-> <<>>]]
  /\ UNCHANGED <<data, machines, fieldStates, currentTime, ticks, mi, assigned,
                 lastStep, result, query>>

\* The two visits the nested forEach pays to a pair of nodes: whether each
\* gets the other as a connection.
ConnectPair ==
  /\ pc = "connect"
  /\ pc' = "connected"
  /\ \E node \in DOMAIN roadNetwork, otherNode \in DOMAIN roadNetwork :
       /\ node < otherNode
       /\ LET fields == [i \in DOMAIN data.fields |-> NumberField(data.fields[i])]
              a == Pt(roadNetwork[node].x, roadNetwork[node].y)
              b == Pt(roadNetwork[otherNode].x, roadNetwork[otherNode].y)
          IN  query' = << [node |-> node, otherNode |-> otherNode,
                           forth |-> ShouldConnectNumbers(a, b, fields),
                           back |-> ShouldConnectNumbers(b, a, fields)] >>
  /\ UNCHANGED <<data, roadNetwork, machines, fieldStates, currentTime, ticks, mi,
                 assigned, lastStep, result>>

NextSamples ==
  \/ PushNodes
  \/ ConnectPair

SpecSamples == InitSamples /\ [][NextSamples]_vars

----------------------------------------------------------------------------
(* Properties of the connections in Number arithmetic. *)

\* C24: two distinct nodes are connected exactly when they are at most 15
\* apart and none of the interpolated points between them is strictly
\* inside a field, and the relation is symmetric: a node is in another's
\* connections exactly when the other is in its own.
ConnectionsAreSymmetric ==
  pc = "connected" => (query[1].forth <=> query[1].back)

============================================================================
